---- MODULE Spec2Model ----
(***************************************************************************)
(* Model of the spreadsheet-backed record store of src/db.py.              *)
(*                                                                         *)
(* A worksheet is modelled by the sequence of its data rows (the header    *)
(* row is fixed by the H_* lists and consumed by header=0 on every read).  *)
(* Every cell is text: a sequence of one-character strings.  The empty     *)
(* sequence is a blank cell, which pandas reads back as NaN.  Floats are   *)
(* modelled exactly, as integer numbers of tenths (12.5 is 125).           *)
(***************************************************************************)
EXTENDS Integers, Sequences, FiniteSets, TLC

\* ------------------------------------------------------------------
\* Bounds of the model
\* ------------------------------------------------------------------
MaxTx == 2          \* add_transaction is not taken once the sheet has this many rows
MaxBatch == 2       \* rows in one update_transactions_bulk batch
MaxN == 3           \* deposit count of the largest goal offered to set_savings_goal_v2
MaxLinkN == 2       \* the same, where deposits are confirmed as transactions
MaxFnTarget == 200  \* largest target (in tenths) given to _min_n_for_target alone

\* ------------------------------------------------------------------
\* Text: characters, str(), strip(), lower(), comparison
\* ------------------------------------------------------------------
Digits == <<"0", "1", "2", "3", "4", "5", "6", "7", "8", "9">>
UpperLetters == <<"A", "B", "C", "D", "E", "I", "N", "O", "R", "S", "T">>
LowerLetters == <<"a", "b", "c", "d", "e", "i", "n", "o", "r", "s", "t">>
\* the characters that occur, in code-point order (Python compares str by code point)
CharOrder == <<" ", "#", "-", ".">> \o Digits \o UpperLetters
             \o <<"a", "b", "c", "d", "e", "f", "i", "n", "o", "p", "r", "s", "t", "u", "x">>

Ord(c) == CHOOSE i \in 1..Len(CharOrder) : CharOrder[i] = c

IsDigit(c) == \E i \in 1..10 : Digits[i] = c
DigitVal(c) == (CHOOSE i \in 1..10 : Digits[i] = c) - 1

LowerChar(c) ==
    IF \E i \in 1..Len(UpperLetters) : UpperLetters[i] = c
    THEN LowerLetters[CHOOSE i \in 1..Len(UpperLetters) : UpperLetters[i] = c]
    ELSE c

\* str.lower()
Lower(s) == [i \in 1..Len(s) |-> LowerChar(s[i])]

RECURSIVE LStrip(_)
LStrip(s) == IF s # <<>> /\ Head(s) = " " THEN LStrip(Tail(s)) ELSE s

RECURSIVE RStrip(_)
RStrip(s) == IF s # <<>> /\ s[Len(s)] = " " THEN RStrip(SubSeq(s, 1, Len(s) - 1)) ELSE s

\* str.strip()
Strip(s) == RStrip(LStrip(s))

\* s <= t on Python strings (lexicographic, by code point)
RECURSIVE StrLeq(_, _)
StrLeq(s, t) ==
    IF s = <<>> THEN TRUE
    ELSE IF t = <<>> THEN FALSE
    ELSE IF Head(s) = Head(t) THEN StrLeq(Tail(s), Tail(t))
    ELSE Ord(Head(s)) < Ord(Head(t))

RECURSIVE NatStr(_)
NatStr(n) == IF n < 10 THEN <<Digits[n + 1]>>
             ELSE NatStr(n \div 10) \o <<Digits[(n % 10) + 1]>>

\* str(int(v))
IntStr(n) == IF n < 0 THEN <<"-">> \o NatStr(-n) ELSE NatStr(n)

\* str(float(v)) for a float given in tenths: 125 is written "12.5", 50 is "5.0"
FloatStr(t) ==
    IF t < 0 THEN <<"-">> \o NatStr((-t) \div 10) \o <<".">> \o NatStr((-t) % 10)
    ELSE NatStr(t \div 10) \o <<".">> \o NatStr(t % 10)

S_none == <<"n", "o", "n", "e">>
S_nan == <<"n", "a", "n">>
S_entrada == <<"e", "n", "t", "r", "a", "d", "a">>
S_saida == <<"s", "a", "i", "d", "a">>
S_Outros == <<"O", "u", "t", "r", "o", "s">>
S_Desafio == <<"D", "e", "s", "a", "f", "i", "o">>

\* the in-memory NaN of a DataFrame (no text is equal to it)
NaN == <<"NaN">>

\* str(x) of a DataFrame value: NaN prints as "nan"
PyStr(v) == IF v = NaN THEN S_nan ELSE v

AllDigits(s) == s # <<>> /\ \A i \in 1..Len(s) : IsDigit(s[i])

RECURSIVE NatVal(_)
NatVal(s) == IF s = <<>> THEN 0
             ELSE NatVal(SubSeq(s, 1, Len(s) - 1)) * 10 + DigitVal(s[Len(s)])

\* position of the decimal point, 0 when there is none
DotPos(s) == IF \E i \in 1..Len(s) : s[i] = "."
             THEN CHOOSE i \in 1..Len(s) : s[i] = "." /\ \A j \in 1..(i - 1) : s[j] # "."
             ELSE 0

\* an unsigned decimal numeral with at most one fractional digit, in tenths
UnsignedOk(s) ==
    LET d == DotPos(s) IN
    IF d = 0 THEN AllDigits(s)
    ELSE /\ AllDigits(SubSeq(s, 1, d - 1))
         /\ Len(s) = d + 1
         /\ IsDigit(s[d + 1])

UnsignedTenths(s) ==
    LET d == DotPos(s) IN
    IF d = 0 THEN NatVal(s) * 10
    ELSE NatVal(SubSeq(s, 1, d - 1)) * 10 + DigitVal(s[d + 1])

\* pd.to_numeric(cell, errors="coerce"): [ok, v] with v in tenths; ok = FALSE is NaN
ToNumeric(cell) ==
    LET s == Strip(cell) IN
    IF s # <<>> /\ Head(s) = "-"
    THEN IF UnsignedOk(Tail(s)) THEN [ok |-> TRUE, v |-> -UnsignedTenths(Tail(s))]
         ELSE [ok |-> FALSE, v |-> 0]
    ELSE IF UnsignedOk(s) THEN [ok |-> TRUE, v |-> UnsignedTenths(s)]
         ELSE [ok |-> FALSE, v |-> 0]

\* int(x) truncates toward zero
TruncTenths(t) == IF t < 0 THEN -((-t) \div 10) ELSE t \div 10

\* a coercion that fills every unparseable cell with 0
ToInt_zero(cell, dflt) ==
    LET x == ToNumeric(cell) IN IF x.ok THEN TruncTenths(x.v) ELSE 0

\* pd.to_numeric(col, errors="coerce").fillna(dflt).astype(int)
ToInt(cell, dflt) == LET x == ToNumeric(cell) IN IF x.ok THEN TruncTenths(x.v) ELSE dflt

\* pd.to_numeric(col, errors="coerce").fillna(dflt) kept as float (tenths)
ToFloat(cell, dflt) == LET x == ToNumeric(cell) IN IF x.ok THEN x.v ELSE dflt

\* ------------------------------------------------------------------
\* State
\* ------------------------------------------------------------------
VARIABLES
    transactions,       \* data rows of worksheet TAB_TRANSACTIONS
    savings_goal,       \* data rows of worksheet TAB_SAVINGS_GOAL
    savings_deposits,   \* data rows of worksheet TAB_SAVINGS_DEPOSITS
    savings_overrides,  \* data rows of worksheet TAB_SAVINGS_OVERRIDES
    savings_tx_link,    \* data rows of worksheet TAB_SAVINGS_TX_LINK
    last,               \* the operation that ran last: name, arguments, result
    remote,             \* the spreadsheet as init_db finds and leaves it, header rows included
    retry               \* the call of _with_retry in progress

vars == <<transactions, savings_goal, savings_deposits, savings_overrides,
          savings_tx_link, last, remote, retry>>

\* ------------------------------------------------------------------
\* Reading a worksheet
\* ------------------------------------------------------------------
AllNaN(r) == \A f \in DOMAIN r : r[f] = NaN

\* a read that serves the sheet as it was before its last row was appended
ws_to_df_stale(rows) ==
    LET old == SubSeq(rows, 1, Len(rows) - 1)
        df == [i \in 1..Len(old) |->
                  [f \in DOMAIN old[i] |-> IF old[i][f] = <<>> THEN NaN ELSE old[i][f]]]
    IN SelectSeq(df, LAMBDA r : ~AllNaN(r))

\* get_as_dataframe(..., header=0, dtype=str) then dropna(how="all")
ws_to_df(rows) ==
    LET df == [i \in 1..Len(rows) |->
                  [f \in DOMAIN rows[i] |-> IF rows[i][f] = <<>> THEN NaN ELSE rows[i][f]]]
    IN SelectSeq(df, LAMBDA r : ~AllNaN(r))

SeqMax(s) == CHOOSE m \in {s[i] : i \in 1..Len(s)} : \A j \in 1..Len(s) : s[j] <= m

\* _next_id counting the rows instead of taking the largest id
next_id_count(df) == Len(df) + 1

\* _next_id taking the id of the last row instead of the largest id
next_id_last(df) ==
    LET s == SelectSeq([i \in 1..Len(df) |-> ToNumeric(df[i].id)], LAMBDA x : x.ok)
    IN IF s # <<>> THEN TruncTenths(s[Len(s)].v) + 1 ELSE 1

\* _next_id
next_id(df) ==
    LET s == SelectSeq([i \in 1..Len(df) |-> ToNumeric(df[i].id)], LAMBDA x : x.ok)
        vals == [i \in 1..Len(s) |-> s[i].v]
    IN IF df = <<>> THEN 1
       ELSE IF s # <<>> THEN TruncTenths(SeqMax(vals)) + 1 ELSE 1

\* ------------------------------------------------------------------
\* Transactions
\* ------------------------------------------------------------------
\* the row dict built by add_transaction
NewTxRow(new_id, date_, description, ttype, amount, category, paid, now) ==
    [id |-> IntStr(new_id),
     date |-> date_,
     description |-> Strip(description),
     type |-> Lower(Strip(ttype)),
     amount |-> FloatStr(amount),
     category |-> IF Strip(category) # <<>> THEN Strip(category) ELSE S_Outros,
     paid |-> IntStr(paid),
     created_at |-> now]

\* add_transaction as a function of the worksheet
AddTx(tx, date_, description, ttype, amount, category, paid, now) ==
    Append(tx, NewTxRow(next_id(ws_to_df(tx)), date_, description, ttype, amount,
                        category, paid, now))

\* the rows fetch_transactions returns before filtering and sorting
TxTyped(df) ==
    [i \in 1..Len(df) |->
        [id |-> ToInt(df[i].id, 0),
         date |-> PyStr(df[i].date),
         description |-> df[i].description,
         type |-> Lower(Strip(PyStr(df[i].type))),
         amount |-> ToFloat(df[i].amount, 0),
         category |-> PyStr(df[i].category),
         paid |-> ToInt(df[i].paid, 0)]]

\* a sort by id descending alone
TxBeforeEq_id(a, b) == a.id >= b.id

\* (date, id) descending: a is placed no later than b
TxBeforeEq(a, b) ==
    IF a.date = b.date THEN a.id >= b.id ELSE StrLeq(b.date, a.date)

RECURSIVE SortTxDesc(_)
SortTxDesc(s) ==
    IF Len(s) <= 1 THEN s
    ELSE LET rest == SortTxDesc(SubSeq(s, 1, Len(s) - 1))
             x == s[Len(s)]
             k == Cardinality({i \in 1..Len(rest) : TxBeforeEq(rest[i], x)})
         IN SubSeq(rest, 1, k) \o <<x>> \o SubSeq(rest, k + 1, Len(rest))

\* fetch_transactions(date_start, date_end); the empty text stands for None
FetchTx(tx, date_start, date_end) ==
    LET df == ws_to_df(tx)
        t == TxTyped(df)
        f1 == IF date_start # <<>> THEN SelectSeq(t, LAMBDA r : StrLeq(date_start, r.date))
              ELSE t
        f2 == IF date_end # <<>> THEN SelectSeq(f1, LAMBDA r : StrLeq(r.date, date_end))
              ELSE f1
    IN IF df = <<>> THEN <<>> ELSE SortTxDesc(f2)

\* one row as the rewrite loops of delete_transaction / update_transactions_bulk send it
TxRewriteRow(r) ==
    [id |-> IntStr(ToInt(r.id, 0)),
     date |-> PyStr(r.date),
     description |-> PyStr(r.description),
     type |-> PyStr(r.type),
     amount |-> PyStr(r.amount),
     category |-> PyStr(r.category),
     paid |-> PyStr(r.paid),
     created_at |-> PyStr(r.created_at)]

\* delete_transaction without its cascade to SavingsTxLink
DelTxLinks_none(links, tx_id) == links

\* the SavingsTxLink half of delete_transaction
DelTxLinks(links, tx_id) ==
    LET df == ws_to_df(links)
        kept == SelectSeq(df, LAMBDA r : ToInt(r.tx_id, -1) # tx_id)
    IN IF df # <<>>
       THEN [i \in 1..Len(kept) |->
                [n |-> PyStr(kept[i].n), tx_id |-> IntStr(ToInt(kept[i].tx_id, -1))]]
       ELSE links

\* delete_transaction leaving the Transaction sheet as it is
DelTxRows_keep(tx, tx_id) == tx

\* the Transaction half of delete_transaction
DelTxRows(tx, tx_id) ==
    LET df == ws_to_df(tx)
        kept == SelectSeq(df, LAMBDA r : ToInt(r.id, 0) # tx_id)
    IN IF df = <<>> THEN tx
       ELSE [i \in 1..Len(kept) |-> TxRewriteRow(kept[i])]

\* update_transactions_bulk assigning every field but the amount
ApplyUpdate_no_amount(r, u) ==
    [r EXCEPT !.date = u.date,
              !.description = Strip(u.description),
              !.type = Lower(Strip(u.type)),
              !.category = IF Strip(u.category) # <<>> THEN Strip(u.category) ELSE S_Outros,
              !.paid = IntStr(u.paid)]

\* the fields update_transactions_bulk assigns from one incoming row
ApplyUpdate(r, u) ==
    [r EXCEPT !.date = u.date,
              !.description = Strip(u.description),
              !.type = Lower(Strip(u.type)),
              !.amount = FloatStr(u.amount),
              !.category = IF Strip(u.category) # <<>> THEN Strip(u.category) ELSE S_Outros,
              !.paid = IntStr(u.paid)]

RECURSIVE ApplyUpdates(_, _)
ApplyUpdates(df, upd) ==
    IF upd = <<>> THEN df
    ELSE ApplyUpdates([i \in 1..Len(df) |->
                          IF ToInt(df[i].id, 0) = Head(upd).id
                          THEN ApplyUpdate(df[i], Head(upd)) ELSE df[i]],
                      Tail(upd))

\* update_transactions_bulk appending the incoming rows that match no transaction
UpdateTx_upsert(tx, upd) ==
    LET df == ws_to_df(tx)
        out == ApplyUpdates(df, upd)
        new == SelectSeq(upd, LAMBDA u : \A k \in 1..Len(df) : ToInt(df[k].id, 0) # u.id)
    IN IF upd = <<>> \/ df = <<>> THEN tx
       ELSE [i \in 1..Len(out) |-> TxRewriteRow(out[i])]
            \o [i \in 1..Len(new) |->
                   NewTxRow(new[i].id, new[i].date, new[i].description, new[i].type,
                            new[i].amount, new[i].category, new[i].paid, <<"t", "1">>)]

\* update_transactions_bulk as a function of the worksheet
UpdateTx(tx, upd) ==
    LET df == ws_to_df(tx)
        out == ApplyUpdates(df, upd)
    IN IF upd = <<>> \/ df = <<>> THEN tx
       ELSE [i \in 1..Len(out) |-> TxRewriteRow(out[i])]

\* ------------------------------------------------------------------
\* Savings challenge (DESAFIO v2)
\* ------------------------------------------------------------------
\* int((math.sqrt(1 + 8 * target) - 1) / 2) for target > 0, target in tenths
FloorRoot(target) ==
    CHOOSE n \in 0..target :
        /\ 10 * (2 * n + 1) * (2 * n + 1) <= 10 + 8 * target
        /\ 10 * (2 * n + 3) * (2 * n + 3) > 10 + 8 * target

\* _min_n_for_target without its correction step
min_n_uncorrected(target) ==
    IF target <= 0 THEN 1
    ELSE IF FloorRoot(target) < 1 THEN 1 ELSE FloorRoot(target)

\* _min_n_for_target; the square root is taken exactly
min_n_for_target(target) ==
    IF target <= 0 THEN 1
    ELSE LET n0 == FloorRoot(target)
             n1 == IF 5 * n0 * (n0 + 1) < target THEN n0 + 1 ELSE n0
         IN IF n1 < 1 THEN 1 ELSE n1

GoalRow(target_amount, due_date, n_deposits) ==
    [id |-> <<"1">>, target_amount |-> target_amount, due_date |-> due_date,
     n_deposits |-> n_deposits]

\* ["1", "", "", ""]
EmptyGoalRow == GoalRow(<<>>, <<>>, <<>>)

\* set_savings_goal_v2 forgetting the done flags it read
ExistingDone_zero(dep, i) == 0

\* existing.get(i, 0): the dict comprehension keeps the last row of each n
ExistingDone(dep, i) ==
    LET hits == {k \in 1..Len(dep) : ToInt(dep[k].n, 0) = i}
    IN IF hits = {} THEN 0
       ELSE ToInt(dep[CHOOSE k \in hits : \A j \in hits : j <= k].done, 0)

\* set_savings_goal_v2 never discarding a deposit row
GoalDeposits_keep(deposits, n) ==
    LET dep == ws_to_df(deposits)
        m == IF Len(dep) > n THEN Len(dep) ELSE n
    IN [i \in 1..m |-> [n |-> IntStr(i), done |-> IntStr(ExistingDone(dep, i))]]

\* the SavingsDeposit part of set_savings_goal_v2
GoalDeposits(deposits, n) ==
    LET dep == ws_to_df(deposits)
    IN [i \in 1..n |-> [n |-> IntStr(i), done |-> IntStr(ExistingDone(dep, i))]]

\* the SavingsOverride part of set_savings_goal_v2
GoalOverrides(overrides, n) ==
    LET ov == ws_to_df(overrides)
        kept == SelectSeq(ov, LAMBDA r : ToInt(r.n, 0) <= n)
    IN [i \in 1..Len(kept) |->
           [n |-> IntStr(ToInt(kept[i].n, 0)), amount |-> PyStr(kept[i].amount)]]

\* set_savings_goal_v2 keeping every link row
GoalLinks_all(links, n) == links

\* the SavingsTxLink part of set_savings_goal_v2
GoalLinks(links, n) ==
    LET link == ws_to_df(links)
        kept == SelectSeq(link, LAMBDA r : ToInt(r.n, 0) <= n)
    IN [i \in 1..Len(kept) |->
           [n |-> IntStr(ToInt(kept[i].n, 0)), tx_id |-> PyStr(kept[i].tx_id)]]

\* get_savings_goal_v2: (target, due, ndeps); ok = FALSE stands for None
get_savings_goal_v2(goal) ==
    LET df == ws_to_df(goal)
        ones == {k \in 1..Len(df) : Strip(PyStr(df[k].id)) = <<"1">>}
        r == IF ones = {} THEN df[1] ELSE df[CHOOSE k \in ones : \A j \in ones : k <= j]
        d == Strip(PyStr(r.due_date))
    IN IF df = <<>> THEN [target |-> [ok |-> FALSE, v |-> 0], due |-> <<>>,
                          ndeps |-> [ok |-> FALSE, v |-> 0]]
       ELSE [target |-> ToNumeric(Strip(PyStr(r.target_amount))),
             due |-> IF d # <<>> /\ Lower(d) \notin {S_none, S_nan} THEN d ELSE <<>>,
             ndeps |-> [ok |-> ToNumeric(Strip(PyStr(r.n_deposits))).ok,
                        v |-> TruncTenths(ToNumeric(Strip(PyStr(r.n_deposits))).v)]]

\* df.sort_values("n") on a frame whose n column is already int (stable)
RECURSIVE SortByN(_)
SortByN(s) ==
    IF Len(s) <= 1 THEN s
    ELSE LET rest == SortByN(SubSeq(s, 1, Len(s) - 1))
             x == s[Len(s)]
             k == Cardinality({i \in 1..Len(rest) : rest[i].n <= x.n})
         IN SubSeq(rest, 1, k) \o <<x>> \o SubSeq(rest, k + 1, Len(rest))

\* toggle_savings_deposit_v2 writing the flag into every row
ToggleDeposits_all(deposits, n, done) ==
    LET df == ws_to_df(deposits)
    IN [i \in 1..Len(df) |->
           [n |-> IntStr(ToInt(df[i].n, 0)), done |-> IF done THEN <<"1">> ELSE <<"0">>]]

\* toggle_savings_deposit_v2 as a function of the worksheet
ToggleDeposits(deposits, n, done) ==
    LET df == ws_to_df(deposits)
        typed == [i \in 1..Len(df) |->
                     [n |-> ToInt(df[i].n, 0),
                      done |-> IF ToInt(df[i].n, 0) = n
                               THEN (IF done THEN <<"1">> ELSE <<"0">>)
                               ELSE df[i].done]]
        out == SortByN(typed)
    IN IF df = <<>> \/ ~\E i \in 1..Len(df) : ToInt(df[i].n, 0) = n THEN deposits
       ELSE [i \in 1..Len(out) |-> [n |-> IntStr(out[i].n), done |-> PyStr(out[i].done)]]

\* fetch_savings_deposits_v2_with_amount showing every deposit at its default
FetchDeposits_default(deposits, overrides) ==
    LET dep == ws_to_df(deposits)
        typed == [i \in 1..Len(dep) |->
                     [n |-> ToInt(dep[i].n, 0), done |-> ToInt(dep[i].done, 0),
                      amount |-> 10 * ToInt(dep[i].n, 0)]]
    IN SortByN(typed)

\* dep.merge(ov, on="n", how="left") for one deposit row: a row for each
\* override row of its n, a single row without amount when there is none
RECURSIVE MergeLeft(_, _)
MergeLeft(dep, ov) ==
    IF dep = <<>> THEN <<>>
    ELSE LET d == Head(dep)
             hits == SelectSeq(ov, LAMBDA o : o.n = d.n)
         IN (IF hits = <<>>
             THEN <<[n |-> d.n, done |-> d.done, amount |-> 10 * d.n]>>
             ELSE [k \in 1..Len(hits) |->
                      [n |-> d.n, done |-> d.done, amount |-> hits[k].amount]])
            \o MergeLeft(Tail(dep), ov)

\* fetch_savings_deposits_v2_with_amount; amounts in tenths
FetchDeposits(deposits, overrides) ==
    LET dep == ws_to_df(deposits)
        ov == ws_to_df(overrides)
        dept == [i \in 1..Len(dep) |->
                    [n |-> ToInt(dep[i].n, 0), done |-> ToInt(dep[i].done, 0)]]
        ovt == [i \in 1..Len(ov) |->
                   [n |-> ToInt(ov[i].n, 0), amount |-> ToFloat(ov[i].amount, 0)]]
    IN IF dep = <<>> THEN <<>>
       ELSE IF ov = <<>>
            THEN SortByN([i \in 1..Len(dept) |->
                             [n |-> dept[i].n, done |-> dept[i].done,
                              amount |-> 10 * dept[i].n]])
            ELSE SortByN(MergeLeft(dept, ovt))

\* set_savings_override_v2 adding a row without looking for the one of n
SetOverride_append(overrides, n, amount) ==
    LET df == ws_to_df(overrides)
        typed == [i \in 1..Len(df) |-> [n |-> ToInt(df[i].n, 0), amount |-> df[i].amount]]
        upd == IF ~amount.ok THEN SelectSeq(typed, LAMBDA r : r.n # n)
               ELSE Append(typed, [n |-> n, amount |-> FloatStr(amount.v)])
        out == SortByN(upd)
    IN [i \in 1..Len(out) |-> [n |-> IntStr(out[i].n), amount |-> PyStr(out[i].amount)]]

\* set_savings_override_v2 as a function of the worksheet; amount.ok = FALSE is None
SetOverride(overrides, n, amount) ==
    LET df == ws_to_df(overrides)
        typed == [i \in 1..Len(df) |-> [n |-> ToInt(df[i].n, 0), amount |-> df[i].amount]]
        has == \E i \in 1..Len(typed) : typed[i].n = n
        upd == IF ~amount.ok THEN SelectSeq(typed, LAMBDA r : r.n # n)
               ELSE IF has
                    THEN [i \in 1..Len(typed) |->
                             IF typed[i].n = n
                             THEN [typed[i] EXCEPT !.amount = FloatStr(amount.v)]
                             ELSE typed[i]]
                    ELSE Append(typed, [n |-> n, amount |-> FloatStr(amount.v)])
        out == SortByN(upd)
    IN [i \in 1..Len(out) |-> [n |-> IntStr(out[i].n), amount |-> PyStr(out[i].amount)]]

\* the SavingsDeposit part of reset_savings_marks_v2 (the frame is not empty)
ResetDeposits(deposits) ==
    LET df == ws_to_df(deposits)
        out == SortByN([i \in 1..Len(df) |-> [n |-> ToInt(df[i].n, 0)]])
    IN [i \in 1..Len(out) |-> [n |-> IntStr(out[i].n), done |-> <<"0">>]]

\* "Desafio - Deposito #<n>"
DesafioDescription(n) ==
    S_Desafio \o <<" ", "-", " ", "D", "e", "p", "o", "s", "i", "t", "o", " ", "#">>
    \o IntStr(n)

\* a lookup that never finds the link row
FirstLinkOf_none(df_link, n) == 0

\* df_link[df_link["n"] == n].iloc[0]: the position of the first link row of n,
\* 0 when there is none
FirstLinkOf(df_link, n) ==
    LET hits == {k \in 1..Len(df_link) : ToInt(df_link[k].n, 0) = n}
    IN IF hits = {} THEN 0 ELSE CHOOSE k \in hits : \A j \in hits : k <= j

\* int(float(x))
IntOfFloat(x) == TruncTenths(ToNumeric(x).v)

\* int(df_tx["id"].max()) if not df_tx.empty else 1
CreatedId(df_tx) ==
    IF df_tx # <<>> THEN SeqMax([i \in 1..Len(df_tx) |-> df_tx[i].id]) ELSE 1

\* the link sheet create_desafio_transaction writes: the rows read, then (n, tx_id)
LinksWith(df_link, n, tx_id) ==
    [i \in 1..(Len(df_link) + 1) |->
        IF i <= Len(df_link)
        THEN [n |-> IntStr(ToInt(df_link[i].n, 0)), tx_id |-> IntStr(IntOfFloat(df_link[i].tx_id))]
        ELSE [n |-> IntStr(n), tx_id |-> IntStr(tx_id)]]

\* delete_desafio_transaction as a function of the two worksheets
DeleteDesafio(tx, links, n) ==
    LET df_link == ws_to_df(links)
        k == FirstLinkOf(df_link, n)
        has_tx == Strip(PyStr(df_link[k].tx_id)) # <<>>
        kept == SelectSeq(df_link, LAMBDA r : ToInt(r.n, 0) # n)
    IN IF df_link = <<>> \/ k = 0
       THEN [tx |-> tx, links |-> links, found |-> FALSE]
       ELSE [tx |-> IF has_tx THEN DelTxRows(tx, IntOfFloat(df_link[k].tx_id)) ELSE tx,
             links |-> [i \in 1..Len(kept) |->
                           [n |-> IntStr(ToInt(kept[i].n, 0)), tx_id |-> PyStr(kept[i].tx_id)]],
             found |-> TRUE]

\* ------------------------------------------------------------------
\* The spreadsheet as init_db finds it: worksheets with their header rows
\* ------------------------------------------------------------------
TAB_TRANSACTIONS == "transactions"
TAB_ADJUSTMENTS == "cashflow_adjustments"
TAB_DEBTS == "debts"
TAB_NOTES == "notes"
TAB_SAVINGS_GOAL == "savings_goal_v2"
TAB_SAVINGS_DEPOSITS == "savings_deposits_v2"
TAB_SAVINGS_OVERRIDES == "savings_overrides_v2"
TAB_SAVINGS_TX_LINK == "savings_tx_link_v2"

H_TRANSACTIONS ==
    <<<<"i", "d">>,
      <<"d", "a", "t", "e">>,
      <<"d", "e", "s", "c", "r", "i", "p", "t", "i", "o", "n">>,
      <<"t", "y", "p", "e">>,
      <<"a", "m", "o", "u", "n", "t">>,
      <<"c", "a", "t", "e", "g", "o", "r", "y">>,
      <<"p", "a", "i", "d">>,
      <<"c", "r", "e", "a", "t", "e", "d", "_", "a", "t">>>>
H_ADJUSTMENTS ==
    <<<<"i", "d">>,
      <<"d", "a", "t", "a">>,
      <<"v", "a", "l", "o", "r">>,
      <<"d", "e", "s", "c", "r", "i", "c", "a", "o">>,
      <<"c", "r", "e", "a", "t", "e", "d", "_", "a", "t">>>>
H_DEBTS ==
    <<<<"i", "d">>,
      <<"c", "r", "e", "d", "o", "r">>,
      <<"d", "e", "s", "c", "r", "i", "c", "a", "o">>,
      <<"v", "a", "l", "o", "r">>,
      <<"v", "e", "n", "c", "i", "m", "e", "n", "t", "o">>,
      <<"p", "r", "i", "o", "r", "i", "d", "a", "d", "e">>,
      <<"q", "u", "i", "t", "a", "d", "a">>,
      <<"c", "r", "e", "a", "t", "e", "d", "_", "a", "t">>>>
H_NOTES ==
    <<<<"i", "d">>,
      <<"t", "i", "t", "u", "l", "o">>,
      <<"t", "e", "x", "t", "o">>,
      <<"c", "r", "e", "a", "t", "e", "d", "_", "a", "t">>,
      <<"u", "p", "d", "a", "t", "e", "d", "_", "a", "t">>>>
H_SAVINGS_GOAL ==
    <<<<"i", "d">>,
      <<"t", "a", "r", "g", "e", "t", "_", "a", "m", "o", "u", "n", "t">>,
      <<"d", "u", "e", "_", "d", "a", "t", "e">>,
      <<"n", "_", "d", "e", "p", "o", "s", "i", "t", "s">>>>
H_SAVINGS_DEPOSITS ==
    <<<<"n">>,
      <<"d", "o", "n", "e">>>>
H_SAVINGS_OVERRIDES ==
    <<<<"n">>,
      <<"a", "m", "o", "u", "n", "t">>>>
H_SAVINGS_TX_LINK ==
    <<<<"n">>,
      <<"t", "x", "_", "i", "d">>>>

\* the worksheets init_db ensures, in its order, each with its header
Registry ==
    <<[title |-> TAB_TRANSACTIONS, headers |-> H_TRANSACTIONS],
      [title |-> TAB_ADJUSTMENTS, headers |-> H_ADJUSTMENTS],
      [title |-> TAB_DEBTS, headers |-> H_DEBTS],
      [title |-> TAB_NOTES, headers |-> H_NOTES],
      [title |-> TAB_SAVINGS_GOAL, headers |-> H_SAVINGS_GOAL],
      [title |-> TAB_SAVINGS_DEPOSITS, headers |-> H_SAVINGS_DEPOSITS],
      [title |-> TAB_SAVINGS_OVERRIDES, headers |-> H_SAVINGS_OVERRIDES],
      [title |-> TAB_SAVINGS_TX_LINK, headers |-> H_SAVINGS_TX_LINK]>>
Titles == {Registry[i].title : i \in 1..Len(Registry)}
HeadersOf(title) == Registry[CHOOSE i \in 1..Len(Registry) : Registry[i].title = title].headers

\* a worksheet that does not exist / that add_worksheet has just created
NoSheet == [exists |-> FALSE, rows |-> <<>>]
NewSheet == [exists |-> TRUE, rows |-> <<>>]

\* a row as the API returns it: without its trailing blank cells
RECURSIVE TrimRow(_)
TrimRow(row) ==
    IF row # <<>> /\ row[Len(row)] = <<>> THEN TrimRow(SubSeq(row, 1, Len(row) - 1))
    ELSE row

\* ws.row_values(1)
row_values_1(rows) == IF rows = <<>> THEN <<>> ELSE rows[1]

\* an append that puts the row right below row 1 instead of below the last row
append_row_second(rows, values) ==
    IF rows = <<>> THEN <<TrimRow(values)>>
    ELSE <<rows[1], TrimRow(values)>> \o Tail(rows)

\* ws.append_row(values): the row goes below the last row that holds a value
append_row(rows, values) ==
    LET used == {k \in 1..Len(rows) : rows[k] # <<>>}
        n == IF used = {} THEN 0 ELSE CHOOSE k \in used : \A j \in used : j <= k
    IN SubSeq(rows, 1, n) \o <<TrimRow(values)>>

\* ws.update("A1", [headers]): the cells A1.. of the width of headers are
\* written, the other cells of row 1 and the rows below stay
update_A1(rows, headers) ==
    IF rows = <<>> THEN <<headers>>
    ELSE [rows EXCEPT ![1] =
             TrimRow(headers \o SubSeq(rows[1], Len(headers) + 1, Len(rows[1])))]

\* [str(c).strip() for c in first_row]
StripCells(row) == [i \in 1..Len(row) |-> Strip(row[i])]

\* _ensure_worksheet on one worksheet
ensure_worksheet(sheet, headers) ==
    LET ws == IF sheet.exists THEN sheet ELSE NewSheet
        first_row == StripCells(row_values_1(ws.rows))
    IN IF first_row = <<>> THEN [ws EXCEPT !.rows = append_row(ws.rows, headers)]
       ELSE IF first_row # headers THEN [ws EXCEPT !.rows = update_A1(ws.rows, headers)]
       ELSE ws

\* the column of a frame that _ws_to_df names "id": its position in row 1, 0
\* when no column has that name
IdColumn(rows) ==
    LET cols == StripCells(row_values_1(rows))
        hits == {j \in 1..Len(cols) : cols[j] = <<"i", "d">>}
    IN IF hits = {} THEN 0 ELSE CHOOSE j \in hits : \A k \in hits : j <= k

\* the rows of the frame: the rows below row 1 that hold a value
FrameRows(rows) == SelectSeq(SubSeq(rows, 2, Len(rows)), LAMBDA r : r # <<>>)

\* df["id"].astype(str).str.strip() of one frame row
IdText(r, j) == IF j <= Len(r) /\ r[j] # <<>> THEN Strip(r[j]) ELSE S_nan

\* (df_goal["id"].astype(str).str.strip() == "1").any()
HasId1(rows) ==
    /\ IdColumn(rows) # 0
    /\ \E i \in 1..Len(FrameRows(rows)) :
           IdText(FrameRows(rows)[i], IdColumn(rows)) = <<"1">>

\* the SavingsGoal part of init_db: rewrite the header of a sheet without rows
\* or without an id column, then make sure a row with id 1 is there
RepairGoal(rows) ==
    LET rows1 == IF FrameRows(rows) = <<>> \/ IdColumn(rows) = 0
                 THEN <<H_SAVINGS_GOAL>> ELSE rows
    IN IF HasId1(rows1) THEN rows1
       ELSE append_row(rows1, <<<<"1">>, <<>>, <<>>, <<>>>>)

\* init_db on the whole spreadsheet
InitDb(store) ==
    LET ensured == [t \in Titles |-> ensure_worksheet(store[t], HeadersOf(t))]
    IN [ensured EXCEPT ![TAB_SAVINGS_GOAL].rows = RepairGoal(@)]

\* a spreadsheet without any worksheet
NoSheets == [t \in Titles |-> NoSheet]

\* ------------------------------------------------------------------
\* _with_retry
\* ------------------------------------------------------------------
Tries == 5      \* tries: int = 5
BaseSleep == 6  \* base_sleep: float = 0.6, in tenths of a second

\* sub in s
Contains(s, sub) ==
    \E k \in 0..(Len(s) - Len(sub)) : SubSeq(s, k + 1, k + Len(sub)) = sub

\* "429" in msg or "quota" in msg or "rate" in msg or "user-rate" in msg
Markers ==
    {<<"4", "2", "9">>, <<"q", "u", "o", "t", "a">>, <<"r", "a", "t", "e">>,
     <<"u", "s", "e", "r", "-", "r", "a", "t", "e">>}

\* a classifier that takes every error for a rate limit
IsTransient_always(e) == TRUE

\* a classifier that knows the status code only
IsTransient_429(e) == Contains(Lower(e), <<"4", "2", "9">>)

\* the test of the except branch on msg = str(e).lower()
IsTransient(e) == \E m \in Markers : Contains(Lower(e), m)

\* time.sleep(base_sleep * (2 ** i))
Backoff(i) == BaseSleep * 2 ^ i

\* last = None
NoError == [msg |-> <<>>, at |-> 0]

\* the loop dropping the assignment last = e after the first failure
Remember_first(prev, e) == IF prev = NoError THEN e ELSE prev

\* last = e
Remember(prev, e) == e

\* no call of _with_retry is in progress
RetryIdle == [pc |-> "idle"]

\* ------------------------------------------------------------------
\* Inputs offered to the operations
\* ------------------------------------------------------------------
None == <<>>
Dates == {<<"0", "1">>, <<"0", "2">>}
DateBounds == Dates \cup {None}
Times == {<<"t", "1">>, <<"t", "2">>}
MaxId == MaxTx + 1  \* add_transaction is not taken once the next id would exceed this

\* arguments of add_transaction: text with surrounding blanks, mixed case, blank category
TxInputs ==
    {[date |-> <<"0", "2">>, description |-> <<" ", "a", " ">>,
      ttype |-> <<"S", "a", "i", "d", "a">>, amount |-> 125, category |-> <<" ">>,
      paid |-> 0],
     [date |-> <<"0", "1">>, description |-> <<"b">>,
      ttype |-> <<" ", "E", "n", "t", "r", "a", "d", "a">>, amount |-> 0,
      category |-> <<"c", " ">>, paid |-> 1]}

\* the one add_transaction call offered next to the savings operations
PlainTxInputs ==
    {[date |-> <<"0", "1">>, description |-> <<"b">>, ttype |-> S_saida,
      amount |-> 10, category |-> <<"c">>, paid |-> 1]}

\* field values of one incoming row of update_transactions_bulk
UpdInputs ==
    {[date |-> <<"0", "1">>, description |-> <<"x", " ">>,
      ttype |-> <<" ", "E", "n", "t", "r", "a", "d", "a">>, amount |-> 425,
      category |-> <<>>, paid |-> 1],
     [date |-> <<"0", "2">>, description |-> <<"b">>, ttype |-> S_saida,
      amount |-> 10, category |-> <<"c">>, paid |-> 0]}

\* incoming rows: for the first transaction, or for an id no transaction has
UpdRows ==
    {[id |-> i, date |-> u.date, description |-> u.description, type |-> u.ttype,
      amount |-> u.amount, category |-> u.category, paid |-> u.paid] :
     i \in {1, MaxId + 1}, u \in UpdInputs}

\* df_updates: the batches of at most maxlen incoming rows
Batches(maxlen) == UNION {[1..k -> UpdRows] : k \in 0..maxlen}

\* the target (in tenths) whose deposit count is n: 1 + 2 + ... + n
Triangular(n) == 5 * n * (n + 1)

\* (target_amount, due_date) pairs of set_savings_goal_v2 up to a deposit count
GoalInputs(maxn) ==
    {[target_amount |-> 0, due_date |-> None],
     [target_amount |-> 25, due_date |-> <<"0", "2">>],
     [target_amount |-> Triangular(maxn), due_date |-> None]}

\* the smallest and the largest of them
GoalInputs2(maxn) ==
    {[target_amount |-> 10, due_date |-> <<"0", "2">>],
     [target_amount |-> Triangular(maxn), due_date |-> None]}

OverrideAmounts == {[ok |-> FALSE, v |-> 0], [ok |-> TRUE, v |-> 55]}

SavingsUnchanged ==
    UNCHANGED <<savings_goal, savings_deposits, savings_overrides, savings_tx_link>>

\* ------------------------------------------------------------------
\* Operations
\* ------------------------------------------------------------------
\* the store as init_db leaves a new spreadsheet
Init ==
    /\ transactions = <<>>
    /\ savings_goal = <<EmptyGoalRow>>
    /\ savings_deposits = <<>>
    /\ savings_overrides = <<>>
    /\ savings_tx_link = <<>>
    /\ last = [op |-> "init_db"]
    /\ remote = InitDb(NoSheets)
    /\ retry = RetryIdle

CanAdd(tx) == Len(tx) < MaxTx /\ next_id(ws_to_df(tx)) <= MaxId

add_transaction(inputs, times) ==
    \E inp \in inputs, now \in times :
        /\ CanAdd(transactions)
        /\ transactions' = AddTx(transactions, inp.date, inp.description, inp.ttype,
                                 inp.amount, inp.category, inp.paid, now)
        /\ last' = [op |-> "add_transaction", args |-> inp,
                    new_id |-> next_id(ws_to_df(transactions))]
        /\ SavingsUnchanged
        /\ UNCHANGED <<remote, retry>>

delete_transaction ==
    \E tx_id \in 1..MaxId :
        /\ savings_tx_link' = DelTxLinks(savings_tx_link, tx_id)
        /\ transactions' = DelTxRows(transactions, tx_id)
        /\ last' = [op |-> "delete_transaction", tx_id |-> tx_id,
                    existed |-> \E k \in 1..Len(transactions) :
                                   ToInt(transactions[k].id, 0) = tx_id,
                    ns |-> {ToInt(savings_tx_link[k].n, 0) :
                            k \in {j \in 1..Len(savings_tx_link) :
                                       ToInt(savings_tx_link[j].tx_id, -1) = tx_id}}]
        /\ UNCHANGED <<savings_goal, savings_deposits, savings_overrides>>
        /\ UNCHANGED <<remote, retry>>

update_transactions_bulk(batches) ==
    \E df_updates \in batches :
        /\ transactions' = UpdateTx(transactions, df_updates)
        /\ last' = [op |-> "update_transactions_bulk", df_updates |-> df_updates,
                    matched |-> {i \in 1..Len(df_updates) :
                                    \E k \in 1..Len(transactions) :
                                        ToInt(transactions[k].id, 0) = df_updates[i].id}]
        /\ SavingsUnchanged
        /\ UNCHANGED <<remote, retry>>

set_savings_goal_v2(inputs) ==
    \E g \in inputs :
        LET target_amount == g.target_amount
            n == min_n_for_target(target_amount)
        IN
        /\ savings_goal' = <<GoalRow(FloatStr(target_amount), g.due_date, IntStr(n))>>
        /\ savings_deposits' = GoalDeposits(savings_deposits, n)
        /\ savings_overrides' = GoalOverrides(savings_overrides, n)
        /\ savings_tx_link' = GoalLinks(savings_tx_link, n)
        /\ last' = [op |-> "set_savings_goal_v2", target_amount |-> target_amount, n |-> n,
                    shrunk |-> Len(savings_deposits) > n,
                    dropped |-> /\ Len(GoalOverrides(savings_overrides, n))
                                      < Len(savings_overrides)
                                /\ Len(GoalLinks(savings_tx_link, n)) < Len(savings_tx_link)]
        /\ UNCHANGED transactions
        /\ UNCHANGED <<remote, retry>>

toggle_savings_deposit_v2 ==
    \E n \in 1..(MaxN + 1), done \in BOOLEAN :
        /\ savings_deposits' = ToggleDeposits(savings_deposits, n, done)
        /\ last' = [op |-> "toggle_savings_deposit_v2", n |-> n, done |-> done]
        /\ UNCHANGED <<transactions, savings_goal, savings_overrides, savings_tx_link>>
        /\ UNCHANGED <<remote, retry>>

set_savings_override_v2(ns) ==
    \E n \in ns, amount \in OverrideAmounts :
        /\ savings_overrides' = SetOverride(savings_overrides, n, amount)
        /\ last' = [op |-> "set_savings_override_v2", n |-> n, amount |-> amount]
        /\ UNCHANGED <<transactions, savings_goal, savings_deposits, savings_tx_link>>
        /\ UNCHANGED <<remote, retry>>

reset_savings_marks_v2 ==
    /\ IF ws_to_df(savings_deposits) = <<>>
       THEN UNCHANGED <<savings_deposits, savings_tx_link>>
       ELSE /\ savings_deposits' = ResetDeposits(savings_deposits)
            /\ savings_tx_link' = <<>>
    /\ last' = [op |-> "reset_savings_marks_v2"]
    /\ UNCHANGED <<transactions, savings_goal, savings_overrides>>
    /\ UNCHANGED <<remote, retry>>

clear_savings_goal_v2 ==
    /\ savings_goal' = <<EmptyGoalRow>>
    /\ savings_deposits' = <<>>
    /\ savings_overrides' = <<>>
    /\ savings_tx_link' = <<>>
    /\ last' = [op |-> "clear_savings_goal_v2"]
    /\ UNCHANGED transactions
    /\ UNCHANGED <<remote, retry>>

create_desafio_transaction ==
    \E date_ \in {<<"0", "1">>}, n \in 1..MaxLinkN, now \in {<<"t", "1">>} :
    \E df_link \in {ws_to_df(savings_tx_link)} :
    \E k \in {FirstLinkOf(df_link, n)} :
        /\ IF k # 0 /\ Strip(PyStr(df_link[k].tx_id)) # <<>>
           THEN /\ UNCHANGED <<transactions, savings_tx_link>>
                /\ last' = [op |-> "create_desafio_transaction", n |-> n,
                            ret |-> IntOfFloat(df_link[k].tx_id), created |-> FALSE,
                            again |-> last.op = "create_desafio_transaction" /\ last.n = n]
           ELSE /\ CanAdd(transactions)
                /\ \E tx2 \in {AddTx(transactions, date_, DesafioDescription(n), S_entrada,
                                     10 * n, S_Desafio, 1, now)} :
                   \E tx_id \in {CreatedId(FetchTx(tx2, None, None))} :
                       /\ transactions' = tx2
                       /\ savings_tx_link' = LinksWith(df_link, n, tx_id)
                       /\ last' = [op |-> "create_desafio_transaction", n |-> n,
                                   ret |-> tx_id, created |-> TRUE,
                                   again |-> last.op = "create_desafio_transaction"
                                             /\ last.n = n]
        /\ UNCHANGED <<savings_goal, savings_deposits, savings_overrides>>
        /\ UNCHANGED <<remote, retry>>

delete_desafio_transaction ==
    \E n \in 1..MaxLinkN :
        LET r == DeleteDesafio(transactions, savings_tx_link, n) IN
        /\ transactions' = r.tx
        /\ savings_tx_link' = r.links
        /\ last' = [op |-> "delete_desafio_transaction", n |-> n, found |-> r.found]
        /\ UNCHANGED <<savings_goal, savings_deposits, savings_overrides>>
        /\ UNCHANGED <<remote, retry>>

\* ------------------------------------------------------------------
\* Specifications
\* ------------------------------------------------------------------
\* the record store with deposits confirmed as transactions
AddPlain == add_transaction(PlainTxInputs, {<<"t", "1">>})
SetGoalLinked == set_savings_goal_v2(GoalInputs2(MaxLinkN))

Next ==
    \/ AddPlain
    \/ delete_transaction
    \/ SetGoalLinked
    \/ reset_savings_marks_v2
    \/ clear_savings_goal_v2
    \/ create_desafio_transaction
    \/ delete_desafio_transaction

Spec == Init /\ [][Next]_vars

\* changing the goal over confirmed deposits and overrides
SetOverrideLinked == set_savings_override_v2({1, MaxLinkN})

NextShrink ==
    \/ SetGoalLinked
    \/ SetOverrideLinked
    \/ create_desafio_transaction

SpecShrink == Init /\ [][NextShrink]_vars

\* the Transaction table alone, with the full variety of field values
AddAny == add_transaction(TxInputs, Times)

UpdateOne == update_transactions_bulk(Batches(1))

NextLedger ==
    \/ AddAny
    \/ delete_transaction
    \/ UpdateOne

SpecLedger == Init /\ [][NextLedger]_vars

\* editing the Transaction table in batches
AddOnce == add_transaction(TxInputs, {<<"t", "1">>})
UpdateBatch == update_transactions_bulk(Batches(MaxBatch))

NextBulk ==
    \/ AddOnce
    \/ UpdateBatch

SpecBulk == Init /\ [][NextBulk]_vars

\* the savings goal, its deposits and their overrides
SetGoal == set_savings_goal_v2(GoalInputs(MaxN))
SetOverride1N == set_savings_override_v2({1, MaxN})

NextSavings ==
    \/ SetGoal
    \/ toggle_savings_deposit_v2
    \/ SetOverride1N
    \/ reset_savings_marks_v2
    \/ clear_savings_goal_v2

SpecSavings == Init /\ [][NextSavings]_vars

\* ------------------------------------------------------------------
\* init_db on a spreadsheet in any prior state
\* ------------------------------------------------------------------
MaxCalls == 2  \* init_db is called at most this often in a row

Sheet(rows) == [exists |-> TRUE, rows |-> rows]

\* a data row of any table, and rows of the SavingsGoal table with id 1 and 2
DataRow == <<<<"1">>, <<"x">>>>
GoalRow1 == <<<<"1">>, <<"1", "0", ".", "0">>, <<>>, <<"4">>>>
GoalRow2 == <<<<"2">>, <<"1", "0", ".", "0">>, <<>>, <<"4">>>>

\* row 1 with a wrong first cell / with blanks around its first cell / with
\* one cell more than the header
WrongHeader(headers) == [headers EXCEPT ![1] = <<"x">>]
PaddedHeader(headers) == [headers EXCEPT ![1] = <<" ">> \o @ \o <<" ">>]
LongHeader(headers) == headers \o <<<<"x">>>>

\* the states a worksheet may be found in
SheetShapes(headers, row) ==
    {NoSheet,
     NewSheet,
     Sheet(<<headers>>),
     Sheet(<<headers, row>>),
     Sheet(<<WrongHeader(headers), row>>),
     Sheet(<<PaddedHeader(headers), row>>),
     Sheet(<<LongHeader(headers), row>>),
     Sheet(<<<<>>, row>>)}

\* the SavingsGoal sheet is not offered with a blank row 1 above its rows
GoalShapes ==
    (SheetShapes(H_SAVINGS_GOAL, GoalRow1) \ {Sheet(<<<<>>, GoalRow1>>)})
        \cup {Sheet(<<H_SAVINGS_GOAL, GoalRow2>>)}

\* every sheet but two in one base state (missing, new, or in order)
PriorStores ==
    {[t \in Titles |->
         IF t = TAB_SAVINGS_GOAL THEN g
         ELSE IF t = t1 THEN s1
         ELSE IF base = 1 THEN NoSheet
         ELSE IF base = 2 THEN NewSheet
         ELSE Sheet(<<HeadersOf(t), DataRow>>)] :
     base \in 1..3,
     t1 \in {TAB_TRANSACTIONS, TAB_SAVINGS_TX_LINK},
     s1 \in SheetShapes(H_TRANSACTIONS, DataRow)
            \cup SheetShapes(H_SAVINGS_TX_LINK, DataRow),
     g \in GoalShapes}

InitPrior ==
    /\ transactions = <<>>
    /\ savings_goal = <<EmptyGoalRow>>
    /\ savings_deposits = <<>>
    /\ savings_overrides = <<>>
    /\ savings_tx_link = <<>>
    /\ last = [op |-> "start", calls |-> 0]
    /\ remote \in PriorStores
    /\ retry = RetryIdle

\* init_db, run to its end (one script run at a time: _INIT_DB_RUNNING is
\* False on entry and False again on return)
init_db ==
    /\ last.op \in {"start", "init_db"}
    /\ last.calls < MaxCalls
    /\ remote' = InitDb(remote)
    /\ last' = [op |-> "init_db", calls |-> last.calls + 1]
    /\ UNCHANGED <<transactions, retry>>
    /\ SavingsUnchanged

NextInit == init_db

SpecInit == InitPrior /\ [][NextInit]_vars

\* ------------------------------------------------------------------
\* _with_retry alone, on every course the wrapped call can take
\* ------------------------------------------------------------------
\* what fn() does on one attempt: return, or raise an error with a message
\* (kind is what the remote side meant by it; the loop sees the message only)
Returns == [ok |-> TRUE, msg |-> <<>>, kind |-> "none"]
Raises(msg, kind) == [ok |-> FALSE, msg |-> msg, kind |-> kind]

\* a rate limit by its status code, one by its upper-case reason, a server
\* fault, a refused permission
Outcomes ==
    {Returns,
     Raises(<<"4", "2", "9">>, "rate_limit"),
     Raises(<<"R", "A", "T", "E">>, "rate_limit"),
     Raises(<<"5", "0", "3">>, "server_fault"),
     Raises(<<"D", "E", "N", "I", "E", "D">>, "fatal")}

\* the scripts of a call with tries = 1 and with the default
Scripts == UNION {[1..tries -> Outcomes] : tries \in {1, Tries}}

InitRetry ==
    /\ transactions = <<>>
    /\ savings_goal = <<EmptyGoalRow>>
    /\ savings_deposits = <<>>
    /\ savings_overrides = <<>>
    /\ savings_tx_link = <<>>
    /\ last = [op |-> "_with_retry"]
    /\ remote = InitDb(NoSheets)
    /\ \E script \in Scripts :
           retry = [pc |-> "loop", tries |-> Len(script), script |-> script, i |-> 0,
                    sleeps |-> <<>>, last |-> NoError, value |-> 0, error |-> NoError]

\* one pass of the for loop: fn() returns, or raises and is slept on or re-raised;
\* after the last pass the loop ends and `raise last` runs
attempt ==
    /\ retry.pc = "loop"
    /\ LET i == retry.i
           o == retry.script[i + 1]
           e == [msg |-> o.msg, at |-> i + 1]
       IN IF o.ok
          THEN retry' = [retry EXCEPT !.pc = "returned", !.i = i + 1, !.value = i + 1]
          ELSE IF IsTransient(o.msg)
          THEN retry' = [retry EXCEPT
                            !.i = i + 1,
                            !.last = Remember(@, e),
                            !.sleeps = Append(@, Backoff(i)),
                            !.pc = IF i + 1 = retry.tries THEN "raised" ELSE "loop",
                            !.error = IF i + 1 = retry.tries
                                      THEN Remember(retry.last, e) ELSE @]
          ELSE retry' = [retry EXCEPT !.pc = "raised", !.i = i + 1,
                                      !.last = Remember(@, e), !.error = e]
    /\ UNCHANGED <<transactions, last, remote>>
    /\ SavingsUnchanged

NextRetry == attempt

\* the loop is plain sequential code: it goes on until it returns or raises
SpecRetry == InitRetry /\ [][NextRetry]_vars /\ WF_vars(NextRetry)
\* ------------------------------------------------------------------
\* The forms of app.py and desafio.py that write to the store
\* ------------------------------------------------------------------
MaxDebts == 2        \* Salvar dívida is not taken once the Debt sheet has this many rows
MaxAdjustments == 1  \* the same for Adicionar ajuste and the Adjustment sheet

Cell(r, j) == IF j <= Len(r) THEN r[j] ELSE <<>>

\* _ws_to_df on the Debt worksheet
DebtsDf(rows) ==
    ws_to_df([i \in 1..Len(FrameRows(rows)) |->
                 LET r == FrameRows(rows)[i]
                 IN [id |-> Cell(r, 1), credor |-> Cell(r, 2), descricao |-> Cell(r, 3),
                     valor |-> Cell(r, 4), vencimento |-> Cell(r, 5),
                     prioridade |-> Cell(r, 6), quitada |-> Cell(r, 7),
                     created_at |-> Cell(r, 8)]])

\* add_debt as a function of the worksheet
AddDebt(rows, credor, descricao, valor, vencimento, prioridade, now) ==
    append_row(rows, <<IntStr(next_id(DebtsDf(rows))), Strip(credor), Strip(descricao),
                       FloatStr(valor), vencimento, IntStr(prioridade), <<"0">>, now>>)

\* (prioridade, vencimento) ascending, then id descending: a is placed no
\* later than b
DebtBeforeEq(a, b) ==
    IF a.prioridade # b.prioridade THEN a.prioridade < b.prioridade
    ELSE IF a.vencimento # b.vencimento THEN StrLeq(a.vencimento, b.vencimento)
    ELSE a.id >= b.id

RECURSIVE SortDebts(_)
SortDebts(s) ==
    IF Len(s) <= 1 THEN s
    ELSE LET rest == SortDebts(SubSeq(s, 1, Len(s) - 1))
             x == s[Len(s)]
             k == Cardinality({i \in 1..Len(rest) : DebtBeforeEq(rest[i], x)})
         IN SubSeq(rest, 1, k) \o <<x>> \o SubSeq(rest, k + 1, Len(rest))

\* fetch_debts(show_quitadas)
FetchDebts(rows, show_quitadas) ==
    LET df == DebtsDf(rows)
        t == [i \in 1..Len(df) |->
                 [id |-> ToInt(df[i].id, 0), credor |-> df[i].credor,
                  descricao |-> df[i].descricao, valor |-> ToFloat(df[i].valor, 0),
                  vencimento |-> PyStr(df[i].vencimento),
                  prioridade |-> ToInt(df[i].prioridade, 1),
                  quitada |-> ToInt(df[i].quitada, 0)]]
    IN IF df = <<>> THEN <<>>
       ELSE SortDebts(IF show_quitadas THEN t ELSE SelectSeq(t, LAMBDA r : r.quitada = 0))

\* (data, id) ascending: a is placed no later than b
AdjBeforeEq(a, b) ==
    IF a.data # b.data THEN StrLeq(a.data, b.data) ELSE a.id <= b.id

RECURSIVE SortAdjustments(_)
SortAdjustments(s) ==
    IF Len(s) <= 1 THEN s
    ELSE LET rest == SortAdjustments(SubSeq(s, 1, Len(s) - 1))
             x == s[Len(s)]
             k == Cardinality({i \in 1..Len(rest) : AdjBeforeEq(rest[i], x)})
         IN SubSeq(rest, 1, k) \o <<x>> \o SubSeq(rest, k + 1, Len(rest))

\* mark_debt_paid(debt_id, True) as a function of the worksheet
MarkDebtPaid(rows, debt_id) ==
    LET df == DebtsDf(rows)
        out == [i \in 1..Len(df) |->
                   <<IntStr(ToInt(df[i].id, 0)), PyStr(df[i].credor), PyStr(df[i].descricao),
                     PyStr(df[i].valor), PyStr(df[i].vencimento), PyStr(df[i].prioridade),
                     IF ToInt(df[i].id, 0) = debt_id THEN <<"1">> ELSE PyStr(df[i].quitada),
                     PyStr(df[i].created_at)>>]
    IN IF df = <<>> \/ \A i \in 1..Len(df) : ToInt(df[i].id, 0) # debt_id THEN rows
       ELSE <<H_DEBTS>> \o out

\* _ws_to_df on the Adjustment worksheet, as far as _next_id reads it
AdjustmentsDf(rows) ==
    ws_to_df([i \in 1..Len(FrameRows(rows)) |->
                 LET r == FrameRows(rows)[i]
                 IN [id |-> Cell(r, 1), data |-> Cell(r, 2), valor |-> Cell(r, 3),
                     descricao |-> Cell(r, 4), created_at |-> Cell(r, 5)]])

\* fetch_cashflow_adjustments(date_start, date_end)
FetchAdjustments(rows, date_start, date_end) ==
    LET df == AdjustmentsDf(rows)
        t == [i \in 1..Len(df) |->
                 [id |-> ToInt(df[i].id, 0), data |-> PyStr(df[i].data),
                  valor |-> ToFloat(df[i].valor, 0), descricao |-> df[i].descricao]]
    IN IF df = <<>> THEN <<>>
       ELSE SortAdjustments(SelectSeq(t, LAMBDA r : /\ StrLeq(date_start, r.data)
                                                     /\ StrLeq(r.data, date_end)))

\* add_cashflow_adjustment as a function of the worksheet
AddAdjustment(rows, data, valor, descricao, now) ==
    append_row(rows, <<IntStr(next_id(AdjustmentsDf(rows))), data, FloatStr(valor),
                       Strip(descricao), now>>)

\* f"Quitar dívida - {r['credor']} ({r['descricao']})".strip()
SettleDescription(r) ==
    Strip(<<"Q", "u", "i", "t", "a", "r", " ", "-", " ">> \o PyStr(r.credor)
          \o <<" ", "(">> \o PyStr(r.descricao) \o <<")">>)

S_Dividas == <<"D", "i", "v", "i", "d", "a", "s">>

\* a form that lets every description through
DescriptionGiven_any(desc) == TRUE

\* if not desc.strip(): st.error(...)
DescriptionGiven(desc) == Strip(desc) # <<>>

\* a form that lets every debt through
DebtGiven_any(credor, valor) == TRUE

\* if not credor.strip(): ... elif valor <= 0: ... else: add_debt(...)
DebtGiven(credor, valor) == Strip(credor) # <<>> /\ ~(valor <= 0)

\* if valor_adj <= 0: st.warning(...) else: add_cashflow_adjustment(...)
AdjustmentGiven(valor) == ~(valor <= 0)

\* meta_txt.strip().replace(".", "").replace(",", ".")
MetaClean(meta_txt) ==
    LET s == SelectSeq(Strip(meta_txt), LAMBDA c : c # ".")
    IN [i \in 1..Len(s) |-> IF s[i] = "," THEN "." ELSE s[i]]

\* float(meta_clean) on the texts offered: a number in tenths, or an exception
MetaVal(meta_txt) == ToNumeric(MetaClean(meta_txt))

\* the checks of Aplicar: a text is given, it is a number, the number is above zero
MetaGiven(meta_txt) ==
    /\ MetaClean(meta_txt) # <<>>
    /\ MetaVal(meta_txt).ok
    /\ ~(MetaVal(meta_txt).v <= 0)

\* what the add form can hand over: number_input has min_value=0.0, the
\* selectbox offers the two kinds, the description is free text
FormInputs ==
    {[date |-> <<"0", "2">>, description |-> f.d, ttype |-> f.k, amount |-> f.a,
      category |-> S_Outros, paid |-> 1] :
     f \in {[d |-> <<>>, k |-> S_saida, a |-> 0],
            [d |-> <<" ">>, k |-> S_entrada, a |-> 125],
            [d |-> <<"a">>, k |-> S_saida, a |-> 0],
            [d |-> <<"a">>, k |-> S_entrada, a |-> 125]}}

\* what one row of the bulk editor can be changed to: type is a selectbox
\* column of the two kinds, amount a plain number column
EditorInputs ==
    {[ttype |-> S_entrada, amount |-> -50], [ttype |-> S_saida, amount |-> 425]}

\* (credor, valor) of the debt form: number_input has min_value=0.0
DebtInputs ==
    {[credor |-> <<>>, valor |-> 500],
     [credor |-> <<" ">>, valor |-> 500],
     [credor |-> <<"c">>, valor |-> 0],
     [credor |-> <<"c">>, valor |-> 500]}

\* valor of the adjustment form: number_input has min_value=0.0
AdjustmentInputs == {0, 100}

\* meta_txt of the goal form with what the text is: free text
MetaInputs ==
    {[txt |-> <<>>, is |-> "blank"],
     [txt |-> <<" ">>, is |-> "blank"],
     [txt |-> <<"a">>, is |-> "unparseable"],
     [txt |-> <<"1", ",", "5", ",">>, is |-> "unparseable"],
     [txt |-> <<"0">>, is |-> "not positive"],
     [txt |-> <<"-", "1">>, is |-> "not positive"],
     [txt |-> <<"0", ".", "0", "0", "3">>, is |-> "number"],
     [txt |-> <<" ", "1", ",", "5">>, is |-> "number"]}

Rejected(op, args) ==
    /\ last' = [op |-> op, args |-> args, called |-> "none"]
    /\ UNCHANGED <<transactions, remote>>
    /\ SavingsUnchanged

\* Salvar of Novo lançamento
Salvar ==
    \E inp \in FormInputs :
        /\ IF DescriptionGiven(inp.description)
           THEN /\ CanAdd(transactions)
                /\ transactions' = AddTx(transactions, inp.date, inp.description,
                                         inp.ttype, inp.amount, inp.category, inp.paid,
                                         <<"t", "1">>)
                /\ last' = [op |-> "Salvar", args |-> inp, called |-> "add_transaction"]
                /\ UNCHANGED remote
                /\ SavingsUnchanged
           ELSE Rejected("Salvar", inp)
        /\ UNCHANGED retry

\* Salvar edições: the rows fetch_transactions shows, one of them edited, go
\* to update_transactions_bulk
Salvar_edicoes ==
    \E df \in {FetchTx(transactions, <<"0", "1">>, <<"0", "2">>)} :
        /\ df # <<>>
        /\ \E k \in 1..Len(df), e \in EditorInputs :
           \E save \in {[df EXCEPT ![k] = [@ EXCEPT !.type = e.ttype,
                                                     !.amount = e.amount]]} :
               /\ transactions' = UpdateTx(transactions, save)
               /\ last' = [op |-> "Salvar edicoes", args |-> save,
                           called |-> "update_transactions_bulk"]
        /\ UNCHANGED remote
        /\ SavingsUnchanged
        /\ UNCHANGED retry

\* Salvar dívida
Salvar_divida ==
    \E inp \in DebtInputs :
        /\ IF DebtGiven(inp.credor, inp.valor)
           THEN /\ Len(FrameRows(remote[TAB_DEBTS].rows)) < MaxDebts
                /\ remote' = [remote EXCEPT ![TAB_DEBTS].rows =
                                 AddDebt(@, inp.credor, <<>>, inp.valor, <<>>, 1,
                                         <<"t", "1">>)]
                /\ last' = [op |-> "Salvar divida", args |-> inp, called |-> "add_debt"]
                /\ UNCHANGED transactions
                /\ SavingsUnchanged
           ELSE Rejected("Salvar divida", inp)
        /\ UNCHANGED retry

\* Quitar agora: the debt becomes a paid "saida" and is marked paid
Quitar_agora ==
    \E debt_id \in 0..(MaxDebts + 1), show_quitadas \in BOOLEAN :
    \E df \in {FetchDebts(remote[TAB_DEBTS].rows, show_quitadas)} :
    \E row \in {SelectSeq(df, LAMBDA r : r.id = debt_id)} :
        /\ IF debt_id <= 0 \/ row = <<>>
           THEN Rejected("Quitar agora",
                         [debt_id |-> debt_id, show_quitadas |-> show_quitadas])
           ELSE /\ CanAdd(transactions)
                /\ transactions' = AddTx(transactions, <<"0", "2">>,
                                         SettleDescription(row[1]), S_saida,
                                         row[1].valor, S_Dividas, 1, <<"t", "1">>)
                /\ remote' = [remote EXCEPT ![TAB_DEBTS].rows = MarkDebtPaid(@, debt_id)]
                /\ last' = [op |-> "Quitar agora",
                            args |-> [debt_id |-> debt_id, show_quitadas |-> show_quitadas],
                            called |-> "add_transaction"]
                /\ SavingsUnchanged
        /\ UNCHANGED retry

\* Adicionar ajuste
Adicionar_ajuste ==
    \E valor \in AdjustmentInputs :
        /\ IF AdjustmentGiven(valor)
           THEN /\ Len(FrameRows(remote[TAB_ADJUSTMENTS].rows)) < MaxAdjustments
                /\ remote' = [remote EXCEPT ![TAB_ADJUSTMENTS].rows =
                                 AddAdjustment(@, <<"0", "2">>, valor, <<>>, <<"t", "1">>)]
                /\ last' = [op |-> "Adicionar ajuste", args |-> [valor |-> valor],
                            called |-> "add_cashflow_adjustment"]
                /\ UNCHANGED transactions
                /\ SavingsUnchanged
           ELSE Rejected("Adicionar ajuste", [valor |-> valor])
        /\ UNCHANGED retry

\* Aplicar of the savings challenge
Aplicar ==
    \E inp \in MetaInputs :
        /\ IF MetaGiven(inp.txt)
           THEN \E n \in {min_n_for_target(MetaVal(inp.txt).v)} :
                /\ savings_goal' = <<GoalRow(FloatStr(MetaVal(inp.txt).v), <<>>, IntStr(n))>>
                /\ savings_deposits' = GoalDeposits(savings_deposits, n)
                /\ savings_overrides' = GoalOverrides(savings_overrides, n)
                /\ savings_tx_link' = GoalLinks(savings_tx_link, n)
                /\ last' = [op |-> "Aplicar", args |-> inp, called |-> "set_savings_goal_v2"]
                /\ UNCHANGED <<transactions, remote>>
           ELSE Rejected("Aplicar", inp)
        /\ UNCHANGED retry

\* the four forms that check their input
NextForms ==
    \/ Salvar
    \/ Salvar_divida
    \/ Adicionar_ajuste
    \/ Aplicar

SpecForms == Init /\ [][NextForms]_vars

\* the ways a transaction is written: the add form, the bulk editor, settling
\* a debt, confirming a deposit
NextEntry ==
    \/ Salvar
    \/ Salvar_edicoes
    \/ Salvar_divida
    \/ Quitar_agora
    \/ create_desafio_transaction

SpecEntry == Init /\ [][NextEntry]_vars


\* ------------------------------------------------------------------
\* The overrides of the deposit values
\* ------------------------------------------------------------------
\* the second argument Salvar valores passes for a row: None when the amount
\* is the default n (abs(amount - n) < 0.0001), the amount otherwise
SavedAmount(n, amount) ==
    IF amount = 10 * n THEN [ok |-> FALSE, v |-> 0] ELSE [ok |-> TRUE, v |-> amount]

\* the loop of Salvar valores over the rows of the editor
RECURSIVE SaveValues(_, _)
SaveValues(overrides, edited) ==
    IF edited = <<>> THEN overrides
    ELSE SaveValues(SetOverride(overrides, Head(edited).n,
                                SavedAmount(Head(edited).n, Head(edited).amount)),
                    Tail(edited))

\* what the amount cell of deposit n can be changed to: its default, 2.0, 5.5
EditorAmounts(n) == {10 * n, 20, 55}

\* Salvar valores: the rows fetch_savings_deposits_v2_with_amount shows, one
\* of them with its amount edited, go to set_savings_override_v2 one by one
Salvar_valores ==
    \E df \in {FetchDeposits(savings_deposits, savings_overrides)} :
        /\ df # <<>>
        /\ \E k \in 1..Len(df) :
           \E a \in EditorAmounts(df[k].n) :
           \E edited \in {[df EXCEPT ![k] = [@ EXCEPT !.amount = a]]} :
               /\ savings_overrides' = SaveValues(savings_overrides, edited)
               /\ last' = [op |-> "Salvar valores", n |-> df[k].n, amount |-> a,
                           had |-> \E j \in 1..Len(savings_overrides) :
                                       ToInt(savings_overrides[j].n, 0) = df[k].n]
        /\ UNCHANGED <<transactions, savings_goal, savings_deposits, savings_tx_link>>
        /\ UNCHANGED <<remote, retry>>

NextOverrides ==
    \/ SetGoal
    \/ SetOverride1N
    \/ Salvar_valores

SpecOverrides == Init /\ [][NextOverrides]_vars

\* ------------------------------------------------------------------
\* The reads on sheets with damaged cells
\* ------------------------------------------------------------------
\* a numeric cell as it may be found: a number, a text that is none, blank
NumCells == {<<"2">>, <<"x">>, <<>>}

\* one Transaction row with its id, amount and paid cells as found
FoundTx(id, amount, paid) ==
    [id |-> id, date |-> <<"0", "2">>, description |-> <<"a">>, type |-> S_saida,
     amount |-> amount, category |-> S_Outros, paid |-> paid, created_at |-> <<"t", "1">>]

\* one Debt row with its id, valor, prioridade and quitada cells as found
FoundDebt(id, valor, prioridade, quitada) ==
    <<id, <<"c">>, <<>>, valor, <<>>, prioridade, quitada, <<"t", "1">>>>

\* one Adjustment row with its id and valor cells as found
FoundAdjustment(id, valor) == <<id, <<"0", "2">>, valor, <<>>, <<"t", "1">>>>

\* the tables as found: one of them holds a row with cells of any kind
FoundStores ==
    LET whole == [tx |-> <<>>, dep |-> <<>>, ov |-> <<>>,
                  debts |-> <<H_DEBTS>>, adj |-> <<H_ADJUSTMENTS>>]
    IN UNION {
        {[whole EXCEPT !.tx = <<FoundTx(i, a, p)>>] :
            i \in NumCells, a \in NumCells, p \in NumCells},
        {[whole EXCEPT !.debts = <<H_DEBTS, FoundDebt(i, v, p, q)>>] :
            i \in NumCells, v \in NumCells, p \in NumCells, q \in NumCells},
        {[whole EXCEPT !.adj = <<H_ADJUSTMENTS, FoundAdjustment(i, v)>>] :
            i \in NumCells, v \in NumCells},
        {[whole EXCEPT !.dep = <<[n |-> n, done |-> d]>>] :
            n \in NumCells \ {<<>>}, d \in NumCells},
        {[whole EXCEPT !.dep = <<[n |-> <<"2">>, done |-> <<"0">>]>>,
                       !.ov = <<[n |-> n, amount |-> a]>>] :
            n \in NumCells \ {<<>>}, a \in NumCells}}

InitFound ==
    \E s \in FoundStores :
        /\ transactions = s.tx
        /\ savings_goal = <<EmptyGoalRow>>
        /\ savings_deposits = s.dep
        /\ savings_overrides = s.ov
        /\ savings_tx_link = <<>>
        /\ last = [op |-> "start"]
        /\ remote = [InitDb(NoSheets) EXCEPT ![TAB_DEBTS].rows = s.debts,
                                             ![TAB_ADJUSTMENTS].rows = s.adj]
        /\ retry = RetryIdle

Unread ==
    /\ UNCHANGED <<transactions, remote, retry>>
    /\ SavingsUnchanged

fetch_transactions ==
    /\ last' = [op |-> "fetch_transactions", ret |-> FetchTx(transactions, None, None)]
    /\ Unread

fetch_cashflow_adjustments ==
    /\ last' = [op |-> "fetch_cashflow_adjustments",
                ret |-> FetchAdjustments(remote[TAB_ADJUSTMENTS].rows,
                                         <<"0", "1">>, <<"0", "2">>)]
    /\ Unread

fetch_debts ==
    \E show_quitadas \in BOOLEAN :
        /\ last' = [op |-> "fetch_debts", show_quitadas |-> show_quitadas,
                    ret |-> FetchDebts(remote[TAB_DEBTS].rows, show_quitadas)]
        /\ Unread

fetch_savings_deposits_v2_with_amount ==
    /\ last' = [op |-> "fetch_savings_deposits_v2_with_amount",
                ret |-> FetchDeposits(savings_deposits, savings_overrides)]
    /\ Unread

NextFound ==
    \/ fetch_transactions
    \/ fetch_cashflow_adjustments
    \/ fetch_debts
    \/ fetch_savings_deposits_v2_with_amount

SpecFound == InitFound /\ [][NextFound]_vars

\* ------------------------------------------------------------------
\* The remote calls of an operation, one of them failing once
\* ------------------------------------------------------------------
\* a remote call handed to _with_retry, and one made directly
Wrapped(call) == [call |-> call, wrapped |-> TRUE]
Bare(call) == [call |-> call, wrapped |-> FALSE]

\* _open_spreadsheet: client.open_by_key(sid)
OpenCalls == <<Wrapped("open_by_key")>>

\* _ensure_worksheet on a worksheet that exists and has its header
EnsureCalls == <<Wrapped("worksheet"), Wrapped("row_values")>>

\* _ws_to_df and _append_row
ReadCalls == <<Wrapped("get_as_dataframe")>>
AppendCalls == <<Wrapped("append_row")>>

\* the remote calls of an operation, in the order it makes them; init_db on a
\* spreadsheet that is in order
CallsOf(op) ==
    IF op = "add_transaction"
    THEN OpenCalls \o <<Bare("worksheet")>> \o ReadCalls \o AppendCalls
    ELSE IF op = "fetch_transactions"
    THEN OpenCalls \o <<Bare("worksheet")>> \o ReadCalls
    ELSE OpenCalls
         \o EnsureCalls \o EnsureCalls \o EnsureCalls \o EnsureCalls
         \o EnsureCalls \o EnsureCalls \o EnsureCalls \o EnsureCalls
         \o <<Bare("worksheet")>> \o ReadCalls

CalledOperations == {"add_transaction", "fetch_transactions", "init_db"}

\* the rate-limit error the remote side answers with
E_429 == <<"4", "2", "9">>

\* an operation starts; one of its remote calls (none for 0) will fail once
\* with a rate-limit error and succeed when repeated
InitCalls ==
    /\ transactions = <<>>
    /\ savings_goal = <<EmptyGoalRow>>
    /\ savings_deposits = <<>>
    /\ savings_overrides = <<>>
    /\ savings_tx_link = <<>>
    /\ last = [op |-> "start"]
    /\ remote = InitDb(NoSheets)
    /\ \E op \in CalledOperations :
       \E fault \in 0..Len(CallsOf(op)) :
           retry = [pc |-> "calling", op |-> op, k |-> 1, fault |-> fault,
                    failed |-> FALSE, sleeps |-> <<>>]

\* the next remote call of the operation: it succeeds, or it fails and is
\* repeated by _with_retry after a sleep, or it fails outside _with_retry and
\* the operation raises
remote_call ==
    /\ retry.pc = "calling"
    /\ LET c == CallsOf(retry.op)[retry.k]
       IN IF retry.k = retry.fault /\ ~retry.failed
          THEN IF c.wrapped /\ IsTransient(E_429)
               THEN retry' = [retry EXCEPT !.failed = TRUE,
                                           !.sleeps = Append(@, Backoff(0))]
               ELSE retry' = [retry EXCEPT !.failed = TRUE, !.pc = "raised"]
          ELSE retry' = [retry EXCEPT
                            !.k = @ + 1,
                            !.pc = IF retry.k = Len(CallsOf(retry.op))
                                   THEN "completed" ELSE "calling"]
    /\ UNCHANGED <<transactions, last, remote>>
    /\ SavingsUnchanged

NextCalls == remote_call

SpecCalls == InitCalls /\ [][NextCalls]_vars /\ WF_vars(NextCalls)

\* ------------------------------------------------------------------
\* Reads of the Transaction table and the remote fetches they make
\* ------------------------------------------------------------------
MaxReads == 2  \* fetch_transactions is not taken again after this many reads in a row

\* retry.reads: the reads made since the last write on the table (or since the
\* start); retry.fetches: the calls of get_as_dataframe those reads made
InitReads ==
    /\ transactions = <<>>
    /\ savings_goal = <<EmptyGoalRow>>
    /\ savings_deposits = <<>>
    /\ savings_overrides = <<>>
    /\ savings_tx_link = <<>>
    /\ last = [op |-> "start"]
    /\ remote = InitDb(NoSheets)
    /\ retry = [reads |-> 0, fetches |-> 0]

\* fetch_transactions: _ws_to_df calls get_as_dataframe on every call; the code
\* reads no clock and keeps no copy of an earlier result
read_transactions ==
    \E date_start \in DateBounds, date_end \in DateBounds :
        /\ retry.reads < MaxReads
        /\ last' = [op |-> "fetch_transactions", fetched |-> 1,
                    ret |-> FetchTx(transactions, date_start, date_end)]
        /\ retry' = [reads |-> retry.reads + 1, fetches |-> retry.fetches + 1]
        /\ UNCHANGED <<transactions, remote>>
        /\ SavingsUnchanged

\* add_transaction: a write on the table
write_transaction ==
    \E inp \in TxInputs, now \in Times :
        /\ CanAdd(transactions)
        /\ transactions' = AddTx(transactions, inp.date, inp.description, inp.ttype,
                                 inp.amount, inp.category, inp.paid, now)
        /\ last' = [op |-> "add_transaction"]
        /\ retry' = [reads |-> 0, fetches |-> 0]
        /\ UNCHANGED remote
        /\ SavingsUnchanged

NextReads ==
    \/ read_transactions
    \/ write_transaction

SpecReads == InitReads /\ [][NextReads]_vars

\* ------------------------------------------------------------------
\* The four add operations on tables found with rows of any id
\* ------------------------------------------------------------------
MaxAdds == 2   \* the add operations are taken at most this often in all
MaxFound == 2  \* a table is found with at most this many rows

\* _ws_to_df on the Notes worksheet
NotesDf(rows) ==
    ws_to_df([i \in 1..Len(FrameRows(rows)) |->
                 LET r == FrameRows(rows)[i]
                 IN [id |-> Cell(r, 1), titulo |-> Cell(r, 2), texto |-> Cell(r, 3),
                     created_at |-> Cell(r, 4), updated_at |-> Cell(r, 5)]])

\* add_note(titulo, texto)
AddNote(rows, titulo, texto, now) ==
    append_row(rows, <<IntStr(next_id(NotesDf(rows))), Strip(titulo), Strip(texto),
                       now, now>>)

\* id cells a table is found with: two ids, a damaged cell and a blank one
IdCells == {<<"2">>, <<"5">>, <<"x">>, <<>>}

\* one Notes row with its id cell as found
FoundNote(id) == <<id, <<"t">>, <<"x">>, <<"t", "1">>, <<"t", "1">>>>

\* the id cells of the rows one table is found with
FoundIds == UNION {[1..k -> IdCells] : k \in 0..MaxFound}

\* one of the four tables holds rows with those ids, the others are empty
InitAdds ==
    \E t \in {"tx", TAB_ADJUSTMENTS, TAB_DEBTS, TAB_NOTES}, ids \in FoundIds :
        /\ transactions = IF t = "tx"
                          THEN [i \in 1..Len(ids) |-> FoundTx(ids[i], <<"2">>, <<"0">>)]
                          ELSE <<>>
        /\ savings_goal = <<EmptyGoalRow>>
        /\ savings_deposits = <<>>
        /\ savings_overrides = <<>>
        /\ savings_tx_link = <<>>
        /\ last = [op |-> "start"]
        /\ remote = [InitDb(NoSheets) EXCEPT
               ![TAB_ADJUSTMENTS].rows =
                   IF t = TAB_ADJUSTMENTS
                   THEN @ \o [i \in 1..Len(ids) |-> FoundAdjustment(ids[i], <<"2">>)]
                   ELSE @,
               ![TAB_DEBTS].rows =
                   IF t = TAB_DEBTS
                   THEN @ \o [i \in 1..Len(ids) |->
                                 FoundDebt(ids[i], <<"2">>, <<"1">>, <<"0">>)]
                   ELSE @,
               ![TAB_NOTES].rows =
                   IF t = TAB_NOTES
                   THEN @ \o [i \in 1..Len(ids) |-> FoundNote(ids[i])]
                   ELSE @]
        /\ retry = [adds |-> 0]

\* one more add operation is made
Added(op) ==
    /\ retry.adds < MaxAdds
    /\ retry' = [adds |-> retry.adds + 1]
    /\ last' = [op |-> op]
    /\ SavingsUnchanged

add_transaction_row ==
    /\ Added("add_transaction")
    /\ transactions' = AddTx(transactions, <<"0", "1">>, <<"b">>, S_saida, 10, <<"c">>,
                             1, <<"t", "2">>)
    /\ UNCHANGED remote

add_cashflow_adjustment ==
    /\ Added("add_cashflow_adjustment")
    /\ remote' = [remote EXCEPT ![TAB_ADJUSTMENTS].rows =
                     AddAdjustment(@, <<"0", "1">>, 10, <<"b">>, <<"t", "2">>)]
    /\ UNCHANGED transactions

add_debt ==
    /\ Added("add_debt")
    /\ remote' = [remote EXCEPT ![TAB_DEBTS].rows =
                     AddDebt(@, <<"c">>, <<"b">>, 10, <<>>, 1, <<"t", "2">>)]
    /\ UNCHANGED transactions

add_note ==
    /\ Added("add_note")
    /\ remote' = [remote EXCEPT ![TAB_NOTES].rows =
                     AddNote(@, <<"t">>, <<" ", "b">>, <<"t", "2">>)]
    /\ UNCHANGED transactions

NextAdds ==
    \/ add_transaction_row
    \/ add_cashflow_adjustment
    \/ add_debt
    \/ add_note

SpecAdds == InitAdds /\ [][NextAdds]_vars

\* ------------------------------------------------------------------
\* Adds and deletes on one table, with the ids the adds gave out
\* ------------------------------------------------------------------
MaxIssued == 3  \* add is not taken on a table once it has given out this many ids

\* the row written back for one Debt row of the frame
DebtRewriteRow(r) ==
    <<IntStr(ToInt(r.id, 0)), PyStr(r.credor), PyStr(r.descricao), PyStr(r.valor),
      PyStr(r.vencimento), PyStr(r.prioridade), PyStr(r.quitada), PyStr(r.created_at)>>

\* delete_debt(debt_id) as a function of the worksheet
DeleteDebt(rows, debt_id) ==
    LET df == DebtsDf(rows)
        kept == SelectSeq(df, LAMBDA r : ToInt(r.id, 0) # debt_id)
    IN IF df = <<>> THEN rows
       ELSE <<H_DEBTS>> \o [i \in 1..Len(kept) |-> DebtRewriteRow(kept[i])]

\* retry.tx, retry.debts: the ids add_transaction and add_debt have given out,
\* in the order of the calls
InitKeys ==
    /\ transactions = <<>>
    /\ savings_goal = <<EmptyGoalRow>>
    /\ savings_deposits = <<>>
    /\ savings_overrides = <<>>
    /\ savings_tx_link = <<>>
    /\ last = [op |-> "start"]
    /\ remote = InitDb(NoSheets)
    /\ retry = [tx |-> <<>>, debts |-> <<>>]

issue_transaction ==
    /\ Len(retry.tx) < MaxIssued
    /\ \E new_id \in {next_id(ws_to_df(transactions))} :
           /\ transactions' = AddTx(transactions, <<"0", "1">>, <<"b">>, S_saida, 10,
                                    <<"c">>, 1, <<"t", "1">>)
           /\ retry' = [retry EXCEPT !.tx = Append(@, new_id)]
           /\ last' = [op |-> "add_transaction", new_id |-> new_id]
    /\ UNCHANGED remote
    /\ SavingsUnchanged

drop_transaction ==
    \E tx_id \in 1..MaxIssued :
        /\ savings_tx_link' = DelTxLinks(savings_tx_link, tx_id)
        /\ transactions' = DelTxRows(transactions, tx_id)
        /\ last' = [op |-> "delete_transaction", tx_id |-> tx_id]
        /\ UNCHANGED <<savings_goal, savings_deposits, savings_overrides>>
        /\ UNCHANGED <<remote, retry>>

issue_debt ==
    /\ Len(retry.debts) < MaxIssued
    /\ \E new_id \in {next_id(DebtsDf(remote[TAB_DEBTS].rows))} :
           /\ remote' = [remote EXCEPT ![TAB_DEBTS].rows =
                            AddDebt(@, <<"c">>, <<"b">>, 10, <<>>, 1, <<"t", "1">>)]
           /\ retry' = [retry EXCEPT !.debts = Append(@, new_id)]
           /\ last' = [op |-> "add_debt", new_id |-> new_id]
    /\ UNCHANGED transactions
    /\ SavingsUnchanged

drop_debt ==
    \E debt_id \in 1..MaxIssued :
        /\ remote' = [remote EXCEPT ![TAB_DEBTS].rows = DeleteDebt(@, debt_id)]
        /\ last' = [op |-> "delete_debt", debt_id |-> debt_id]
        /\ UNCHANGED <<transactions, retry>>
        /\ SavingsUnchanged

NextKeys ==
    \/ issue_transaction
    \/ drop_transaction
    \/ issue_debt
    \/ drop_debt

SpecKeys == InitKeys /\ [][NextKeys]_vars

\* ------------------------------------------------------------------
\* Two sessions calling add_transaction on the same Transaction table
\* ------------------------------------------------------------------
MaxSessionAdds == 2  \* a session calls add_transaction at most this often

Sessions == {1, 2}

\* the id add_transaction puts into the row it appends: the one it computed
\* with the frame it read; the sheet as it is by then is not read again
StagedId_fresh(df_read, tx_now) == next_id(ws_to_df(tx_now))

StagedId(df_read, tx_now) == next_id(df_read)

\* retry[s]: where session s is in add_transaction (pc), the sheet its last
\* _ws_to_df read (saw) and the calls it has completed (done)
InitSessions ==
    /\ transactions = <<>>
    /\ savings_goal = <<EmptyGoalRow>>
    /\ savings_deposits = <<>>
    /\ savings_overrides = <<>>
    /\ savings_tx_link = <<>>
    /\ last = [op |-> "start"]
    /\ remote = InitDb(NoSheets)
    /\ retry = [s \in Sessions |-> [pc |-> "idle", saw |-> <<>>, done |-> 0]]

\* df = _ws_to_df(ws, H_TRANSACTIONS) in session s
session_read(s) ==
    /\ retry[s].pc = "idle"
    /\ retry[s].done < MaxSessionAdds
    /\ retry' = [retry EXCEPT ![s] = [@ EXCEPT !.pc = "read", !.saw = transactions]]
    /\ last' = [op |-> "_ws_to_df", session |-> s]
    /\ UNCHANGED <<transactions, remote>>
    /\ SavingsUnchanged

\* new_id = _next_id(df); _append_row(ws, row, H_TRANSACTIONS) in session s
session_append(s) ==
    /\ retry[s].pc = "read"
    /\ transactions' =
           Append(transactions,
                  NewTxRow(StagedId(ws_to_df(retry[s].saw), transactions), <<"0", "1">>,
                           IF s = 1 THEN <<"a">> ELSE <<"b">>, S_saida, 10, <<"c">>, 1,
                           <<"t", "1">>))
    /\ retry' = [retry EXCEPT ![s] = [@ EXCEPT !.pc = "idle", !.done = @ + 1]]
    /\ last' = [op |-> "_append_row", session |-> s]
    /\ UNCHANGED remote
    /\ SavingsUnchanged

NextSessions ==
    \/ \E s \in Sessions : session_read(s)
    \/ \E s \in Sessions : session_append(s)

SpecSessions == InitSessions /\ [][NextSessions]_vars

\* ------------------------------------------------------------------
\* Rewrites of the Transaction and SavingsTxLink sheets, one remote call
\* at a time
\* ------------------------------------------------------------------
\* the rows of the Transaction worksheet as records, a blank cell as ""
TxRecords(rows) ==
    [i \in 1..Len(FrameRows(rows)) |->
        LET r == FrameRows(rows)[i]
        IN [id |-> Cell(r, 1), date |-> Cell(r, 2), description |-> Cell(r, 3),
            type |-> Cell(r, 4), amount |-> Cell(r, 5), category |-> Cell(r, 6),
            paid |-> Cell(r, 7), created_at |-> Cell(r, 8)]]

\* the list handed to ws.append_row for one Transaction row
TxCells(r) ==
    <<r.id, r.date, r.description, r.type, r.amount, r.category, r.paid, r.created_at>>

\* the same for the SavingsTxLink worksheet
LinkRecords(rows) ==
    [i \in 1..Len(FrameRows(rows)) |->
        [n |-> Cell(FrameRows(rows)[i], 1), tx_id |-> Cell(FrameRows(rows)[i], 2)]]

LinkCells(r) == <<r.n, r.tx_id>>

\* a Transaction row and a SavingsTxLink row as a sheet is found with them
RawTx(id) ==
    <<IntStr(id), <<"0", "1">>, <<"a">>, S_saida, <<"1", ".", "0">>, S_Outros, <<"0">>,
      <<"t", "1">>>>

RawLink(n, tx_id) == <<IntStr(n), IntStr(tx_id)>>

\* the one incoming row of update_transactions_bulk for the id
OneUpdate(id) ==
    <<[id |-> id, date |-> <<"0", "2">>, description |-> <<"z">>, type |-> S_entrada,
       amount |-> 30, category |-> <<>>, paid |-> 1]>>

\* the calls a session may be making
RewriteCalls ==
    {[op |-> "delete_transaction", arg |-> id] : id \in 1..(MaxTx + 1)}
        \cup {[op |-> "update_transactions_bulk", arg |-> id] : id \in {1, MaxTx + 1}}

\* a delete_transaction that starts with the Transaction sheet
Calling_tx_first(c) ==
    [pc |-> "tx_read", op |-> c.op, arg |-> c.arg, sheet |-> TAB_TRANSACTIONS,
     staged |-> <<>>, k |-> 0]

\* a session at the start of its call, and a session that makes no call
Calling(c) ==
    [pc |-> IF c.op = "delete_transaction" THEN "link_read" ELSE "tx_read",
     op |-> c.op, arg |-> c.arg, sheet |-> TAB_TRANSACTIONS, staged |-> <<>>, k |-> 0]

NotCalling ==
    [pc |-> "done", op |-> "none", arg |-> 0, sheet |-> TAB_TRANSACTIONS,
     staged |-> <<>>, k |-> 0]

\* the sheets as found: n transactions with the ids 1..n, the first m of them
\* linked to the deposit of the same number
FoundSheets(n, m) ==
    [InitDb(NoSheets) EXCEPT
        ![TAB_TRANSACTIONS].rows = @ \o [i \in 1..n |-> RawTx(i)],
        ![TAB_SAVINGS_TX_LINK].rows = @ \o [i \in 1..m |-> RawLink(i, i)]]

InitSheets(store, sessions) ==
    /\ transactions = <<>>
    /\ savings_goal = <<EmptyGoalRow>>
    /\ savings_deposits = <<>>
    /\ savings_overrides = <<>>
    /\ savings_tx_link = <<>>
    /\ last = [op |-> "start", found |-> store]
    /\ remote = store
    /\ retry = sessions

\* what the session goes on with after the last append_row of a rewrite
AfterRewrite(p) == IF p.sheet = TAB_SAVINGS_TX_LINK THEN "tx_read" ELSE "done"

\* delete_transaction: df_link = _ws_to_df(ws_link, ...); the filter
link_read(s) ==
    /\ retry[s].pc = "link_read"
    /\ LET recs == LinkRecords(remote[TAB_SAVINGS_TX_LINK].rows)
           out == DelTxLinks(recs, retry[s].arg)
       IN retry' = [retry EXCEPT ![s] =
              IF ws_to_df(recs) # <<>>
              THEN [@ EXCEPT !.pc = "clear", !.sheet = TAB_SAVINGS_TX_LINK,
                             !.staged = [i \in 1..Len(out) |-> LinkCells(out[i])],
                             !.k = 0]
              ELSE [@ EXCEPT !.pc = "tx_read"]]
    /\ last' = [last EXCEPT !.op = "_ws_to_df"]
    /\ UNCHANGED <<transactions, remote>>
    /\ SavingsUnchanged

\* df = _ws_to_df(ws, H_TRANSACTIONS); the filter or the assignments
tx_read(s) ==
    /\ retry[s].pc = "tx_read"
    /\ LET recs == TxRecords(remote[TAB_TRANSACTIONS].rows)
           out == IF retry[s].op = "delete_transaction"
                  THEN DelTxRows(recs, retry[s].arg)
                  ELSE UpdateTx(recs, OneUpdate(retry[s].arg))
       IN retry' = [retry EXCEPT ![s] =
              IF ws_to_df(recs) = <<>>
              THEN [@ EXCEPT !.pc = "done"]
              ELSE [@ EXCEPT !.pc = "clear", !.sheet = TAB_TRANSACTIONS,
                             !.staged = [i \in 1..Len(out) |-> TxCells(out[i])],
                             !.k = 0]]
    /\ last' = [last EXCEPT !.op = "_ws_to_df"]
    /\ UNCHANGED <<transactions, remote>>
    /\ SavingsUnchanged

\* ws.clear()
ws_clear(s) ==
    /\ retry[s].pc = "clear"
    /\ remote' = [remote EXCEPT ![retry[s].sheet].rows = <<>>]
    /\ retry' = [retry EXCEPT ![s].pc = "header"]
    /\ last' = [last EXCEPT !.op = "clear"]
    /\ UNCHANGED transactions
    /\ SavingsUnchanged

\* ws.append_row(headers)
ws_header(s) ==
    /\ retry[s].pc = "header"
    /\ remote' = [remote EXCEPT ![retry[s].sheet].rows =
                     append_row(@, HeadersOf(retry[s].sheet))]
    /\ retry' = [retry EXCEPT ![s].pc =
                     IF retry[s].staged = <<>> THEN AfterRewrite(retry[s]) ELSE "rows"]
    /\ last' = [last EXCEPT !.op = "append_row"]
    /\ UNCHANGED transactions
    /\ SavingsUnchanged

\* one pass of `for _, r in df.iterrows(): ws.append_row([...])`
ws_row(s) ==
    /\ retry[s].pc = "rows"
    /\ remote' = [remote EXCEPT ![retry[s].sheet].rows =
                     append_row(@, retry[s].staged[retry[s].k + 1])]
    /\ retry' = [retry EXCEPT ![s] =
                    [@ EXCEPT !.k = @ + 1,
                              !.pc = IF retry[s].k + 1 = Len(retry[s].staged)
                                     THEN AfterRewrite(retry[s]) ELSE "rows"]]
    /\ last' = [last EXCEPT !.op = "append_row"]
    /\ UNCHANGED transactions
    /\ SavingsUnchanged

RewriteStep(s) ==
    \/ link_read(s)
    \/ tx_read(s)
    \/ ws_clear(s)
    \/ ws_header(s)
    \/ ws_row(s)

\* one session rewriting
InitRewrite ==
    \E n \in 0..MaxTx, m \in 0..MaxTx, c \in RewriteCalls :
        /\ m <= n
        /\ InitSheets(FoundSheets(n, m), <<Calling(c), NotCalling>>)

NextRewrite ==
    \/ link_read(1)
    \/ tx_read(1)
    \/ ws_clear(1)
    \/ ws_header(1)
    \/ ws_row(1)

\* sequential code: the call goes on until it returns
SpecRewrite == InitRewrite /\ [][NextRewrite]_vars /\ WF_vars(NextRewrite)

\* two sessions rewriting the same sheets
InitRace ==
    \E c1 \in RewriteCalls, c2 \in RewriteCalls :
        InitSheets(FoundSheets(MaxTx, 1), <<Calling(c1), Calling(c2)>>)

NextRace ==
    \/ \E s \in Sessions : link_read(s)
    \/ \E s \in Sessions : tx_read(s)
    \/ \E s \in Sessions : ws_clear(s)
    \/ \E s \in Sessions : ws_header(s)
    \/ \E s \in Sessions : ws_row(s)

SpecRace == InitRace /\ [][NextRace]_vars /\ WF_vars(NextRace)

\* ------------------------------------------------------------------
\* The rewrite-based operations on tables found with blank cells
\* ------------------------------------------------------------------
\* the row written back for one Adjustment row and one Notes row of the frame
AdjustmentRewriteRow(r) ==
    <<IntStr(ToInt(r.id, 0)), PyStr(r.data), PyStr(r.valor), PyStr(r.descricao),
      PyStr(r.created_at)>>

NoteRewriteRow(r) ==
    <<IntStr(ToInt(r.id, 0)), PyStr(r.titulo), PyStr(r.texto), PyStr(r.created_at),
      PyStr(r.updated_at)>>

\* delete_cashflow_adjustment(adj_id) as a function of the worksheet
DeleteAdjustment(rows, adj_id) ==
    LET df == AdjustmentsDf(rows)
        kept == SelectSeq(df, LAMBDA r : ToInt(r.id, 0) # adj_id)
    IN IF df = <<>> THEN rows
       ELSE <<H_ADJUSTMENTS>> \o [i \in 1..Len(kept) |-> AdjustmentRewriteRow(kept[i])]

\* delete_note(note_id)
DeleteNote(rows, note_id) ==
    LET df == NotesDf(rows)
        kept == SelectSeq(df, LAMBDA r : ToInt(r.id, 0) # note_id)
    IN IF df = <<>> THEN rows
       ELSE <<H_NOTES>> \o [i \in 1..Len(kept) |-> NoteRewriteRow(kept[i])]

\* update_note(note_id, titulo, texto)
UpdateNote(rows, note_id, titulo, texto, now) ==
    LET df == NotesDf(rows)
        out == [i \in 1..Len(df) |->
                   IF ToInt(df[i].id, 0) = note_id
                   THEN [df[i] EXCEPT !.titulo = Strip(titulo), !.texto = Strip(texto),
                                      !.updated_at = now]
                   ELSE df[i]]
    IN IF df = <<>> \/ \A i \in 1..Len(df) : ToInt(df[i].id, 0) # note_id THEN rows
       ELSE <<H_NOTES>> \o [i \in 1..Len(out) |-> NoteRewriteRow(out[i])]

\* the ids the operations are called with: the rows found and one more
FrameIds == 1..(MaxFound + 1)

\* optional cells as a row is found with them: filled or blank
Optional == {<<"x">>, <<>>}

\* one of the tables holds MaxFound rows with the ids 1, 2, ..; the optional
\* cells (category, descricao, vencimento, texto) of its rows are filled or blank
InitFrame ==
    \E t \in {"tx", TAB_ADJUSTMENTS, TAB_DEBTS, TAB_NOTES}, c \in Optional :
        /\ transactions =
               IF t = "tx"
               THEN [i \in 1..MaxFound |->
                        [FoundTx(IntStr(i), <<"2">>, <<"0">>) EXCEPT !.category = c]]
               ELSE <<>>
        /\ savings_goal = <<EmptyGoalRow>>
        /\ savings_deposits = <<>>
        /\ savings_overrides = <<>>
        /\ savings_tx_link = <<>>
        /\ last = [op |-> "start"]
        /\ remote = [InitDb(NoSheets) EXCEPT
               ![TAB_ADJUSTMENTS].rows =
                   IF t = TAB_ADJUSTMENTS
                   THEN @ \o [i \in 1..MaxFound |->
                                 <<IntStr(i), <<"0", "2">>, <<"2">>, c, <<"t", "1">>>>]
                   ELSE @,
               ![TAB_DEBTS].rows =
                   IF t = TAB_DEBTS
                   THEN @ \o [i \in 1..MaxFound |->
                                 <<IntStr(i), <<"c">>, c, <<"2">>, c, <<"1">>, <<"0">>,
                                   <<"t", "1">>>>]
                   ELSE @,
               ![TAB_NOTES].rows =
                   IF t = TAB_NOTES
                   THEN @ \o [i \in 1..MaxFound |->
                                 <<IntStr(i), <<"t">>, c, <<"t", "1">>, <<"t", "1">>>>]
                   ELSE @]
        /\ retry = RetryIdle

\* the operation was called for the id
FrameCall(op, id) ==
    /\ last' = [op |-> op, id |-> id]
    /\ UNCHANGED retry
    /\ UNCHANGED <<savings_goal, savings_deposits, savings_overrides>>

rw_delete_transaction ==
    \E id \in FrameIds :
        /\ FrameCall("delete_transaction", id)
        /\ savings_tx_link' = DelTxLinks(savings_tx_link, id)
        /\ transactions' = DelTxRows(transactions, id)
        /\ UNCHANGED remote

rw_update_transactions_bulk ==
    \E id \in FrameIds :
        /\ FrameCall("update_transactions_bulk", id)
        /\ transactions' = UpdateTx(transactions, OneUpdate(id))
        /\ UNCHANGED <<remote, savings_tx_link>>

rw_delete_cashflow_adjustment ==
    \E id \in FrameIds :
        /\ FrameCall("delete_cashflow_adjustment", id)
        /\ remote' = [remote EXCEPT ![TAB_ADJUSTMENTS].rows = DeleteAdjustment(@, id)]
        /\ UNCHANGED <<transactions, savings_tx_link>>

rw_delete_debt ==
    \E id \in FrameIds :
        /\ FrameCall("delete_debt", id)
        /\ remote' = [remote EXCEPT ![TAB_DEBTS].rows = DeleteDebt(@, id)]
        /\ UNCHANGED <<transactions, savings_tx_link>>

rw_mark_debt_paid ==
    \E id \in FrameIds :
        /\ FrameCall("mark_debt_paid", id)
        /\ remote' = [remote EXCEPT ![TAB_DEBTS].rows = MarkDebtPaid(@, id)]
        /\ UNCHANGED <<transactions, savings_tx_link>>

rw_update_note ==
    \E id \in FrameIds :
        /\ FrameCall("update_note", id)
        /\ remote' = [remote EXCEPT ![TAB_NOTES].rows =
                         UpdateNote(@, id, <<"u">>, <<" ", "v">>, <<"t", "2">>)]
        /\ UNCHANGED <<transactions, savings_tx_link>>

rw_delete_note ==
    \E id \in FrameIds :
        /\ FrameCall("delete_note", id)
        /\ remote' = [remote EXCEPT ![TAB_NOTES].rows = DeleteNote(@, id)]
        /\ UNCHANGED <<transactions, savings_tx_link>>

NextFrame ==
    \/ rw_delete_transaction
    \/ rw_update_transactions_bulk
    \/ rw_delete_cashflow_adjustment
    \/ rw_delete_debt
    \/ rw_mark_debt_paid
    \/ rw_update_note
    \/ rw_delete_note

SpecFrame == InitFrame /\ [][NextFrame]_vars

\* ------------------------------------------------------------------
\* create_desafio_transaction one part at a time, with calls that stop
\* ------------------------------------------------------------------
DesafioIdle == [pc |-> "idle", n |-> 0, df_link |-> <<>>, stopped |-> FALSE]

InitDesafio ==
    /\ transactions = <<>>
    /\ savings_goal = <<EmptyGoalRow>>
    /\ savings_deposits = <<>>
    /\ savings_overrides = <<>>
    /\ savings_tx_link = <<>>
    /\ last = [op |-> "start"]
    /\ remote = InitDb(NoSheets)
    /\ retry = DesafioIdle

\* the call starts: the link sheet is read and searched for n; a link with a
\* transaction ends the call
desafio_lookup ==
    \E n \in 1..MaxLinkN :
    \E df_link \in {ws_to_df(savings_tx_link)} :
    \E k \in {FirstLinkOf(df_link, n)} :
        /\ retry.pc = "idle"
        /\ IF k # 0 /\ Strip(PyStr(df_link[k].tx_id)) # <<>>
           THEN /\ retry' = [DesafioIdle EXCEPT !.stopped = retry.stopped]
                /\ last' = [op |-> "create_desafio_transaction", n |-> n,
                            ret |-> IntOfFloat(df_link[k].tx_id)]
           ELSE /\ retry' = [retry EXCEPT !.pc = "add", !.n = n, !.df_link = df_link]
                /\ last' = [op |-> "_ws_to_df", n |-> n]
        /\ UNCHANGED <<transactions, remote>>
        /\ SavingsUnchanged

\* add_transaction(...) of the deposit
desafio_add ==
    \E date_ \in Dates :
        /\ retry.pc = "add"
        /\ CanAdd(transactions)
        /\ transactions' = AddTx(transactions, date_, DesafioDescription(retry.n),
                                 S_entrada, 10 * retry.n, S_Desafio, 1, <<"t", "1">>)
        /\ retry' = [retry EXCEPT !.pc = "link"]
        /\ last' = [op |-> "add_transaction", n |-> retry.n]
        /\ UNCHANGED remote
        /\ SavingsUnchanged

\* fetch_transactions for the id, then the link sheet is rewritten with (n, tx_id)
desafio_link ==
    \E tx_id \in {CreatedId(FetchTx(transactions, None, None))} :
        /\ retry.pc = "link"
        /\ savings_tx_link' = LinksWith(retry.df_link, retry.n, tx_id)
        /\ retry' = [DesafioIdle EXCEPT !.stopped = retry.stopped]
        /\ last' = [op |-> "create_desafio_transaction", n |-> retry.n, ret |-> tx_id]
        /\ UNCHANGED <<transactions, remote>>
        /\ UNCHANGED <<savings_goal, savings_deposits, savings_overrides>>

\* the call stops where it is (the session ends, a remote call raises)
desafio_stop ==
    /\ retry.pc \in {"add", "link"}
    /\ retry' = [DesafioIdle EXCEPT !.stopped = TRUE]
    /\ last' = [op |-> "stopped", n |-> retry.n, at |-> retry.pc]
    /\ UNCHANGED <<transactions, remote>>
    /\ SavingsUnchanged

NextDesafio ==
    \/ desafio_lookup
    \/ desafio_add
    \/ desafio_link
    \/ desafio_stop

SpecDesafio == InitDesafio /\ [][NextDesafio]_vars

\* _min_n_for_target alone, on every target from -2.0 to MaxFnTarget tenths
InitMinN ==
    /\ transactions = <<>>
    /\ savings_goal = <<EmptyGoalRow>>
    /\ savings_deposits = <<>>
    /\ savings_overrides = <<>>
    /\ savings_tx_link = <<>>
    /\ \E target \in -20..MaxFnTarget :
           last = [op |-> "_min_n_for_target", target |-> target, returned |-> FALSE, n |-> 0]
    /\ remote = InitDb(NoSheets)
    /\ retry = RetryIdle

call_min_n_for_target ==
    /\ last.op = "_min_n_for_target"
    /\ ~last.returned
    /\ last' = [last EXCEPT !.returned = TRUE, !.n = min_n_for_target(last.target)]
    /\ UNCHANGED transactions
    /\ SavingsUnchanged
    /\ UNCHANGED <<remote, retry>>

NextMinN == call_min_n_for_target

SpecMinN == InitMinN /\ [][NextMinN]_vars

\* ------------------------------------------------------------------
\* Properties
\* ------------------------------------------------------------------
\* C6: for every target T > 0, _min_n_for_target(T) is the least N >= 1 with
\* N*(N+1)/2 >= T, so T in {1, 3, 6, 10, 15} gives N in {1, 2, 3, 4, 5}; for
\* T <= 0 it is 1.
C6_MinNIsLeast ==
    (last.op = "_min_n_for_target" /\ last.returned) =>
        /\ last.n >= 1
        /\ last.target > 0 => /\ Triangular(last.n) >= last.target
                              /\ last.n > 1 => Triangular(last.n - 1) < last.target
        /\ last.target <= 0 => last.n = 1
        /\ \A k \in 1..5 : last.target = Triangular(k) => last.n = k

\* a target between two triangular numbers, where the correction step adds one
C6_Witness ==
    /\ last.op = "_min_n_for_target"
    /\ last.returned
    /\ last.target = 105
    /\ last.n = 5

\* the date lies in the range [date_start, date_end]; None is no bound
InRange(date_, date_start, date_end) ==
    /\ date_start = None \/ StrLeq(date_start, date_)
    /\ date_end = None \/ StrLeq(date_, date_end)

\* the rows of a fetch_transactions result that carry an id
RowsOfId(ret, id) == {i \in 1..Len(ret) : ret[i].id = id}

\* C1 as stated: add_transaction followed by fetch_transactions with a range
\* containing the date returns exactly one row for the added transaction, with
\* date, description, amount and paid exactly as given, kind lower-cased and
\* category replaced by the default when blank.
C1_AsStated ==
    last.op = "add_transaction" =>
        \A date_start \in DateBounds, date_end \in DateBounds :
            InRange(last.args.date, date_start, date_end) =>
                LET ret == FetchTx(transactions, date_start, date_end)
                    hits == RowsOfId(ret, last.new_id)
                IN /\ Cardinality(hits) = 1
                   /\ \A i \in hits :
                        /\ ret[i].date = last.args.date
                        /\ ret[i].description = last.args.description
                        /\ ret[i].amount = last.args.amount
                        /\ ret[i].paid = last.args.paid
                        /\ ret[i].type = Lower(Strip(last.args.ttype))
                        /\ ret[i].category = IF Strip(last.args.category) = <<>>
                                             THEN S_Outros ELSE Strip(last.args.category)

\* C1 (amended): the same round trip, where description, kind and category come
\* back stripped of surrounding blanks (kind also lower-cased, a blank category
\* as "Outros") and date, amount and paid come back as given.
C1_AddThenFetch ==
    last.op = "add_transaction" =>
        \A date_start \in DateBounds, date_end \in DateBounds :
            InRange(last.args.date, date_start, date_end) =>
                LET ret == FetchTx(transactions, date_start, date_end)
                    hits == RowsOfId(ret, last.new_id)
                IN /\ Cardinality(hits) = 1
                   /\ \A i \in hits :
                        /\ ret[i].date = last.args.date
                        /\ ret[i].description = Strip(last.args.description)
                        /\ ret[i].amount = last.args.amount
                        /\ ret[i].paid = last.args.paid
                        /\ ret[i].type = Lower(Strip(last.args.ttype))
                        /\ ret[i].category = IF Strip(last.args.category) = <<>>
                                             THEN S_Outros ELSE Strip(last.args.category)

\* a transaction with blanks around its description was added to a sheet that
\* already held one, after an earlier row had been deleted
C1_Witness ==
    /\ last.op = "add_transaction"
    /\ last.args.description # Strip(last.args.description)
    /\ Len(transactions) = 2
    /\ last.new_id = 3

\* some SavingsTxLink row is the row of deposit n
HasLink(links, n) == \E k \in 1..Len(links) : ToInt(links[k].n, 0) = n

\* C2: after delete_transaction(id), no transaction row has that id, no
\* SavingsTxLink row has tx_id = id, and the deposits n that referenced it have
\* no link row any more.
C2_DeleteCascades ==
    last.op = "delete_transaction" =>
        /\ \A k \in 1..Len(transactions) : ToInt(transactions[k].id, 0) # last.tx_id
        /\ \A k \in 1..Len(savings_tx_link) :
               ToInt(savings_tx_link[k].tx_id, -1) # last.tx_id
        /\ \A n \in last.ns : ~HasLink(savings_tx_link, n)

\* a transaction that a deposit link referred to was deleted
C2_Witness ==
    /\ last.op = "delete_transaction"
    /\ last.existed
    /\ last.ns # {}
    /\ transactions # <<>>

\* a transaction written by create_desafio_transaction for deposit n
IsDesafioTx(r) ==
    /\ r.category = S_Desafio
    /\ \E n \in 1..MaxLinkN : r.description = DesafioDescription(n)

\* C3: a challenge-deposit transaction and its SavingsTxLink row are both
\* present or both absent: every link row refers to a transaction that exists,
\* and every challenge-deposit transaction has a link row that refers to it.
C3_LinkIffTransaction ==
    /\ \A k \in 1..Len(savings_tx_link) :
           \E j \in 1..Len(transactions) :
               ToInt(transactions[j].id, 0) = ToInt(savings_tx_link[k].tx_id, -1)
    /\ \A j \in 1..Len(transactions) :
           IsDesafioTx(transactions[j]) =>
               \E k \in 1..Len(savings_tx_link) :
                   ToInt(savings_tx_link[k].tx_id, -1) = ToInt(transactions[j].id, 0)

\* C4: delete_desafio_transaction(n): when a link row for n exists, afterwards
\* neither a link row for n nor the transaction it referred to exists and every
\* link row of another n is still there; when none exists, no table changes.
C4_DeleteDesafio ==
    [][last'.op = "delete_desafio_transaction" =>
        LET n == last'.n IN
        IF HasLink(savings_tx_link, n)
        THEN /\ last'.found
             /\ ~HasLink(savings_tx_link', n)
             /\ \A k \in 1..Len(savings_tx_link) :
                    ToInt(savings_tx_link[k].n, 0) = n =>
                        \A j \in 1..Len(transactions') :
                            ToInt(transactions'[j].id, 0)
                                # ToInt(savings_tx_link[k].tx_id, -1)
             /\ \A k \in 1..Len(savings_tx_link) :
                    ToInt(savings_tx_link[k].n, 0) # n =>
                        \E j \in 1..Len(savings_tx_link') :
                            savings_tx_link'[j] = savings_tx_link[k]
             /\ UNCHANGED <<savings_goal, savings_deposits, savings_overrides>>
        ELSE /\ ~last'.found
             /\ UNCHANGED <<transactions, savings_goal, savings_deposits,
                            savings_overrides, savings_tx_link>>]_vars

\* the link of one deposit was deleted with its transaction while another
\* deposit kept both
C4_Witness ==
    /\ last.op = "delete_desafio_transaction"
    /\ last.found
    /\ savings_tx_link # <<>>
    /\ transactions # <<>>

\* C5: create_desafio_transaction is idempotent per n: a call for an n without
\* a link adds exactly one transaction row and returns its id; a call for an n
\* that has a link adds no row, and made right after a call with the same n it
\* returns the same id.
C5_CreateIdempotent ==
    [][last'.op = "create_desafio_transaction" =>
        /\ ~HasLink(savings_tx_link, last'.n) =>
               /\ last'.created
               /\ Len(transactions') = Len(transactions) + 1
               /\ ToInt(transactions'[Len(transactions')].id, 0) = last'.ret
               /\ HasLink(savings_tx_link', last'.n)
        /\ HasLink(savings_tx_link, last'.n) =>
               /\ ~last'.created
               /\ transactions' = transactions
               /\ savings_tx_link' = savings_tx_link
        /\ last'.again =>
               /\ ~last'.created
               /\ last'.ret = last.ret
               /\ transactions' = transactions]_vars

\* the call was made a second time for the same n, while another deposit is
\* linked as well
C5_Witness ==
    /\ last.op = "create_desafio_transaction"
    /\ last.again
    /\ ~last.created
    /\ Len(savings_tx_link) = 2

\* the deposit numbers of the SavingsDeposit rows, in sheet order
DepositNs(deposits) == [i \in 1..Len(deposits) |-> ToInt(deposits[i].n, 0)]

\* the sheet holds exactly one row for each n in 1..N
ExactlyOneToN(deposits, N) ==
    /\ Len(deposits) = N
    /\ \A i \in 1..N : \E j \in 1..Len(deposits) : DepositNs(deposits)[j] = i

\* C7: set_savings_goal_v2(T) with computed count N leaves the SavingsDeposit
\* sheet with exactly the rows n = 1..N: an n that existed before keeps its done
\* flag, a new n has done = 0, and every row with n > N is gone.
C7_GoalDeposits ==
    [][last'.op = "set_savings_goal_v2" =>
        LET N == last'.n IN
        /\ N = min_n_for_target(last'.target_amount)
        /\ get_savings_goal_v2(savings_goal').ndeps = [ok |-> TRUE, v |-> N]
        /\ ExactlyOneToN(savings_deposits', N)
        /\ \A j \in 1..Len(savings_deposits') :
               LET i == ToInt(savings_deposits'[j].n, 0)
                   old == {k \in 1..Len(savings_deposits) :
                               ToInt(savings_deposits[k].n, 0) = i}
               IN IF old = {}
                  THEN savings_deposits'[j].done = <<"0">>
                  ELSE \A k \in old : savings_deposits'[j].done = savings_deposits[k].done
       ]_vars

\* the goal was lowered over deposits of which a kept one is marked done
C7_Witness ==
    /\ last.op = "set_savings_goal_v2"
    /\ last.shrunk
    /\ \E j \in 1..Len(savings_deposits) : savings_deposits[j].done = <<"1">>

\* C8: set_savings_goal_v2(T) with computed count N removes every
\* SavingsOverride row and every SavingsTxLink row with n > N and keeps every
\* such row with n <= N, amount and tx_id unchanged.
C8_GoalOverridesLinks ==
    [][last'.op = "set_savings_goal_v2" =>
        /\ savings_overrides' =
               SelectSeq(savings_overrides, LAMBDA r : ToInt(r.n, 0) <= last'.n)
        /\ savings_tx_link' =
               SelectSeq(savings_tx_link, LAMBDA r : ToInt(r.n, 0) <= last'.n)]_vars

\* the goal was lowered and took an override and a link with it, and an
\* override and a link of a smaller n stayed
C8_Witness ==
    /\ last.op = "set_savings_goal_v2"
    /\ last.dropped
    /\ savings_overrides # <<>>
    /\ savings_tx_link # <<>>

\* C9: after every completed savings operation, when the SavingsGoal row
\* records n_deposits = N the SavingsDeposit sheet holds exactly one row for
\* each n in 1..N and no other row, and when no goal is set it holds no row.
C9_DepositsMatchGoal ==
    LET g == get_savings_goal_v2(savings_goal) IN
    IF g.ndeps.ok THEN ExactlyOneToN(savings_deposits, g.ndeps.v)
    ELSE savings_deposits = <<>>

\* a deposit of the largest goal was marked done
C9_Witness ==
    /\ last.op = "toggle_savings_deposit_v2"
    /\ last.done
    /\ Len(savings_deposits) = MaxN
    /\ \E j \in 1..Len(savings_deposits) : savings_deposits[j].done = <<"1">>

\* the sheet rows of the transaction with an id
TxRowsOfId(tx, id) == {k \in 1..Len(tx) : ToInt(tx[k].id, 0) = id}

\* the incoming rows of a batch that match a transaction of the sheet
Matching(tx, df_updates) ==
    {i \in 1..Len(df_updates) : TxRowsOfId(tx, df_updates[i].id) # {}}

\* the row keeps its place, its id and its created_at
SameIdentity(tx, after, k) ==
    /\ Len(after) = Len(tx)
    /\ after[k].id = tx[k].id
    /\ after[k].created_at = tx[k].created_at

\* fetch_transactions shows the amount for the id
FetchShowsAmount(after, id, amount) ==
    LET ret == FetchTx(after, None, None)
    IN /\ RowsOfId(ret, id) # {}
       /\ \A j \in RowsOfId(ret, id) : ret[j].amount = amount

\* C10 as stated: for each incoming row of update_transactions_bulk whose id
\* matches a transaction, that transaction afterwards carries the incoming
\* date, description, kind, amount, category and paid, fetch_transactions shows
\* the new amount, and its id and created_at are unchanged.
C10_AsStated ==
    [][last'.op = "update_transactions_bulk" =>
        LET df_updates == last'.df_updates IN
        \A i \in Matching(transactions, df_updates) :
            \A k \in TxRowsOfId(transactions, df_updates[i].id) :
                /\ SameIdentity(transactions, transactions', k)
                /\ transactions'[k].date = df_updates[i].date
                /\ transactions'[k].description = df_updates[i].description
                /\ transactions'[k].type = df_updates[i].type
                /\ ToFloat(transactions'[k].amount, 0) = df_updates[i].amount
                /\ transactions'[k].category = df_updates[i].category
                /\ ToInt(transactions'[k].paid, 0) = df_updates[i].paid
                /\ FetchShowsAmount(transactions', df_updates[i].id, df_updates[i].amount)
       ]_vars

\* the incoming row is the last one of the batch for its id
LastOfItsId(df_updates, i) ==
    \A j \in (i + 1)..Len(df_updates) : df_updates[j].id # df_updates[i].id

\* C10 (amended): for each incoming row whose id matches a transaction and
\* which is the last row of the batch for that id, the transaction afterwards
\* carries the incoming date, amount and paid, and the incoming description,
\* kind and category stripped of surrounding blanks (kind also lower-cased, a
\* blank category as "Outros"); fetch_transactions shows the new amount, and
\* its id and created_at are unchanged.
C10_UpdateOverwrites ==
    [][last'.op = "update_transactions_bulk" =>
        LET df_updates == last'.df_updates IN
        \A i \in Matching(transactions, df_updates) :
            LastOfItsId(df_updates, i) =>
                \A k \in TxRowsOfId(transactions, df_updates[i].id) :
                    /\ SameIdentity(transactions, transactions', k)
                    /\ transactions'[k].date = df_updates[i].date
                    /\ transactions'[k].description = Strip(df_updates[i].description)
                    /\ transactions'[k].type = Lower(Strip(df_updates[i].type))
                    /\ ToFloat(transactions'[k].amount, 0) = df_updates[i].amount
                    /\ transactions'[k].category =
                           IF Strip(df_updates[i].category) = <<>>
                           THEN S_Outros ELSE Strip(df_updates[i].category)
                    /\ ToInt(transactions'[k].paid, 0) = df_updates[i].paid
                    /\ FetchShowsAmount(transactions', df_updates[i].id,
                                        df_updates[i].amount)
       ]_vars

\* a batch of two rows for the same transaction was applied, the last of them
\* carrying blanks around its texts and the amount 42.5 the transaction now shows
C10_Witness ==
    /\ last.op = "update_transactions_bulk"
    /\ Len(last.df_updates) = 2
    /\ last.matched = {1, 2}
    /\ last.df_updates[2].description # Strip(last.df_updates[2].description)
    /\ \E k \in 1..Len(transactions) :
           /\ ToInt(transactions[k].id, 0) = 1
           /\ ToFloat(transactions[k].amount, 0) = 425
           /\ transactions[k].description = Strip(last.df_updates[2].description)

C12_InitIdempotent ==
    [][(last.op = "init_db" /\ last'.op = "init_db") => remote' = remote]_vars

\* the rows below row 1 that a sheet held are still there, cell for cell
DataRowsKept(before_, after) ==
    \A k \in 2..Len(before_.rows) :
        /\ k <= Len(after.rows)
        /\ after.rows[k] = before_.rows[k]

\* C13: after init_db returns, from any prior state of the spreadsheet, each
\* of the eight worksheets exists with row 1 equal to its header, no data row
\* was altered by the header repair, and the SavingsGoal sheet has a row with
\* id = 1.
C13_InitEnsures ==
    [][last'.op = "init_db" =>
        /\ \A t \in Titles :
               /\ remote'[t].exists
               /\ StripCells(row_values_1(remote'[t].rows)) = HeadersOf(t)
               /\ DataRowsKept(remote[t], remote'[t])
        /\ HasId1(remote'[TAB_SAVINGS_GOAL].rows)]_vars

\* the call is over
RetryDone == retry.pc \in {"returned", "raised"}

\* attempt k of the call in progress raises an error of the kind
FailsAt(k, kind) ==
    /\ k <= retry.tries
    /\ ~retry.script[k].ok
    /\ retry.script[k].kind = kind

\* C14: a call that fails with a rate-limit signal on its first two attempts and
\* succeeds on the third returns the result of the third attempt without
\* raising, after at least two delays.
C14_RetryThenSucceed ==
    (/\ retry.pc # "idle"
     /\ retry.tries >= 3
     /\ FailsAt(1, "rate_limit") /\ FailsAt(2, "rate_limit")
     /\ retry.script[3].ok
     /\ RetryDone)
        => /\ retry.pc = "returned"
           /\ retry.value = 3
           /\ retry.error = NoError
           /\ Len(retry.sleeps) >= 2
           /\ retry.sleeps = <<Backoff(0), Backoff(1)>>

\* the third attempt returned after an upper-case RATE error and a 429
C14_Witness ==
    /\ retry.pc = "returned"
    /\ retry.i = 3
    /\ retry.script[1].msg = <<"R", "A", "T", "E">>
    /\ retry.script[2].msg = <<"4", "2", "9">>
    /\ Len(retry.sleeps) = 2

\* C15: when the wrapped operation fails with a non-transient error, that same
\* error is raised at once: no sleep follows it and no further attempt is
\* made; failing so on the first attempt, the call makes exactly one attempt and
\* does not sleep at all.
C15_FatalPropagates ==
    \A k \in 1..Tries :
        (retry.pc # "idle" /\ FailsAt(k, "fatal") /\ retry.i >= k) =>
            /\ retry.pc = "raised"
            /\ retry.i = k
            /\ retry.error = [msg |-> retry.script[k].msg, at |-> k]
            /\ Len(retry.sleeps) = k - 1
            /\ k = 1 => retry.sleeps = <<>>

\* a refused permission on the first attempt was raised
C15_Witness ==
    /\ retry.pc = "raised"
    /\ retry.i = 1
    /\ retry.tries = Tries
    /\ retry.error = [msg |-> <<"D", "E", "N", "I", "E", "D">>, at |-> 1]
    /\ retry.sleeps = <<>>

\* C16: _with_retry always terminates: it makes at most tries attempts, and
\* when every attempt fails with a transient error it raises the error of the
\* last attempt.
C16_RetryTerminates ==
    /\ [](retry.pc # "idle" =>
            /\ retry.i <= retry.tries
            /\ retry.pc = "raised" => retry.error.at = retry.i
            /\ (RetryDone /\ \A k \in 1..retry.tries : FailsAt(k, "rate_limit")) =>
                   /\ retry.pc = "raised"
                   /\ retry.i = retry.tries
                   /\ retry.error = [msg |-> retry.script[retry.tries].msg,
                                     at |-> retry.tries])
    /\ <>RetryDone

\* five attempts failed with rate limits and the last error was raised
C16_Witness ==
    /\ retry.pc = "raised"
    /\ retry.tries = Tries
    /\ retry.i = Tries
    /\ Len(retry.sleeps) = Tries
    /\ \A k \in 1..Tries : FailsAt(k, "rate_limit")
    /\ retry.error.at = Tries

\* the rows a read of the Transaction sheet returns that carry the id
ReadRowsOfId(df, id) == {k \in 1..Len(df) : ToInt(df[k].id, 0) = id}

\* C17: once a write on the Transaction table (an append by add_transaction, a
\* rewrite by delete_transaction or update_transactions_bulk) has returned, a
\* read of the table shows that write: the appended row is the last row read
\* after the rows read before, a deleted id is read no more, an updated row is
\* read with its new values; the read is never the content from before a write
\* that changed the sheet.
C17_ReadAfterWrite ==
    [][LET was == ws_to_df(transactions)
           now == ws_to_df(transactions')
       IN /\ transactions' # transactions => now # was
          /\ last'.op = "add_transaction" =>
                 /\ Len(now) = Len(was) + 1
                 /\ SubSeq(now, 1, Len(was)) = was
                 /\ now[Len(now)].id = IntStr(last'.new_id)
                 /\ now[Len(now)].description = Strip(last'.args.description)
                 /\ now[Len(now)].amount = FloatStr(last'.args.amount)
          /\ (last'.op = "delete_transaction" /\ last'.existed) =>
                 /\ Len(now) < Len(was)
                 /\ ReadRowsOfId(now, last'.tx_id) = {}
          /\ last'.op = "update_transactions_bulk" =>
                 \A i \in last'.matched :
                     LastOfItsId(last'.df_updates, i) =>
                         /\ ReadRowsOfId(now, last'.df_updates[i].id) # {}
                         /\ \A k \in ReadRowsOfId(now, last'.df_updates[i].id) :
                                /\ now[k].amount = FloatStr(last'.df_updates[i].amount)
                                /\ now[k].date = last'.df_updates[i].date
      ]_vars

\* the first of two transactions was deleted by a rewrite of the sheet, which
\* now reads as the second one alone
C17_Witness ==
    /\ last.op = "delete_transaction"
    /\ last.existed
    /\ last.tx_id = 1
    /\ Len(ws_to_df(transactions)) = 1
    /\ ToInt(ws_to_df(transactions)[1].id, 0) = 2

\* the two kinds of a transaction
Kinds == {S_entrada, S_saida}

\* C18: after any sequence of add_transaction, settle-debt,
\* create_desafio_transaction and update_transactions_bulk as the forms and the
\* bulk editor drive them, every transaction row has amount >= 0 and a kind
\* that is one of entrada and saida.
C18_AmountAndKind ==
    LET t == TxTyped(ws_to_df(transactions))
    IN \A k \in 1..Len(t) : t[k].amount >= 0 /\ t[k].type \in Kinds

\* C19: invalid input is rejected before any remote call: a transaction with
\* an empty description, a debt with an empty creditor or an amount <= 0, an
\* adjustment with a value <= 0, a savings goal whose text is blank, is not a
\* number or is a number <= 0 call no store operation and change no table.
C19_InvalidRejected ==
    [][LET invalid ==
               \/ last'.op = "Salvar" /\ Strip(last'.args.description) = <<>>
               \/ /\ last'.op = "Salvar divida"
                  /\ (Strip(last'.args.credor) = <<>> \/ last'.args.valor <= 0)
               \/ last'.op = "Adicionar ajuste" /\ last'.args.valor <= 0
               \/ last'.op = "Aplicar" /\ last'.args.is # "number"
       IN invalid =>
              /\ last'.called = "none"
              /\ UNCHANGED <<transactions, savings_goal, savings_deposits,
                             savings_overrides, savings_tx_link, remote>>
      ]_vars

\* a debt form with a creditor but the amount 0 was turned down after a debt
\* and a transaction had been saved
C19_Witness ==
    /\ last.op = "Salvar divida"
    /\ last.called = "none"
    /\ Strip(last.args.credor) # <<>>
    /\ last.args.valor <= 0
    /\ Len(transactions) > 0
    /\ Len(FrameRows(remote[TAB_DEBTS].rows)) > 0

\* the SavingsTxLink rows of deposit n
LinkRowsOf(links, n) == {k \in 1..Len(links) : ToInt(links[k].n, 0) = n}

\* C20: after any sequence of create_desafio_transaction,
\* delete_desafio_transaction, delete_transaction, set_savings_goal_v2,
\* reset_savings_marks_v2 and clear_savings_goal_v2, the SavingsTxLink table
\* holds at most one row for each n.
C20_OneLinkPerN ==
    \A n \in 0..(MaxLinkN + 1) :
        Cardinality(LinkRowsOf(ws_to_df(savings_tx_link), n)) <= 1

\* both deposits are linked, one row each, and the deposit confirmed last had
\* been confirmed, deleted and confirmed again
C20_Witness ==
    /\ last.op = "create_desafio_transaction"
    /\ last.created
    /\ last.ret = MaxTx + 1
    /\ Len(savings_tx_link) = MaxLinkN
    /\ \A n \in 1..MaxLinkN : Cardinality(LinkRowsOf(savings_tx_link, n)) = 1

\* the deposit count N of the goal, 0 when no goal is set
GoalN(goal) ==
    LET g == get_savings_goal_v2(goal) IN IF g.ndeps.ok THEN g.ndeps.v ELSE 0

\* C21: toggle_savings_deposit_v2(n, done) with n outside [1, N] changes no
\* table; with n inside it sets the done flag of deposit n and leaves every
\* other deposit row, the goal, the overrides, the links and the transactions
\* as they were.
C21_ToggleFrame ==
    [][last'.op = "toggle_savings_deposit_v2" =>
        /\ UNCHANGED <<transactions, savings_goal, savings_overrides, savings_tx_link>>
        /\ IF last'.n \notin 1..GoalN(savings_goal)
           THEN savings_deposits' = savings_deposits
           ELSE /\ Len(savings_deposits') = Len(savings_deposits)
                /\ \A i \in 1..Len(savings_deposits) :
                       IF ToInt(savings_deposits[i].n, 0) = last'.n
                       THEN /\ savings_deposits'[i].n = savings_deposits[i].n
                            /\ ToInt(savings_deposits'[i].done, 0)
                                   = IF last'.done THEN 1 ELSE 0
                       ELSE savings_deposits'[i] = savings_deposits[i]
      ]_vars

\* deposit 2 of three was marked done while deposit 1 was and stays done and
\* deposit 3 is not
C21_Witness ==
    /\ last.op = "toggle_savings_deposit_v2"
    /\ last.n = 2
    /\ last.done
    /\ Len(savings_deposits) = 3
    /\ savings_deposits[1].done = <<"1">>
    /\ savings_deposits[2].done = <<"1">>
    /\ savings_deposits[3].done = <<"0">>

\* the SavingsOverride rows of deposit n
OverrideRowsOf(overrides, n) == {k \in 1..Len(overrides) : ToInt(overrides[k].n, 0) = n}

\* C22: fetch_savings_deposits_v2_with_amount returns exactly one row per
\* deposit n, in ascending n, whose amount is the SavingsOverride amount for n
\* when an override row for n exists and n itself otherwise.
C22_DepositAmounts ==
    LET ret == FetchDeposits(savings_deposits, savings_overrides)
    IN /\ Len(ret) = GoalN(savings_goal)
       /\ \A i \in 1..Len(ret) :
              /\ ret[i].n = i
              /\ IF OverrideRowsOf(savings_overrides, i) = {}
                 THEN ret[i].amount = 10 * i
                 ELSE \A k \in OverrideRowsOf(savings_overrides, i) :
                          ret[i].amount = ToFloat(savings_overrides[k].amount, 0)

\* of three deposits the first is shown at its override 5.5, the others at
\* their defaults
C22_Witness ==
    /\ Len(savings_deposits) = 3
    /\ OverrideRowsOf(savings_overrides, 1) # {}
    /\ OverrideRowsOf(savings_overrides, 3) = {}
    /\ FetchDeposits(savings_deposits, savings_overrides)[1].amount = 55
    /\ FetchDeposits(savings_deposits, savings_overrides)[3].amount = 30

\* the SavingsOverride rows of deposit n, in sheet order
OverridesOf(overrides, n) == SelectSeq(overrides, LAMBDA r : ToInt(r.n, 0) = n)

\* what C23 says of a step that sets (amount.ok) or clears the override of n
OverrideSet(n, amount) ==
    /\ IF amount.ok
       THEN /\ Len(OverridesOf(savings_overrides', n)) = 1
            /\ ToFloat(OverridesOf(savings_overrides', n)[1].amount, 0) = amount.v
       ELSE OverridesOf(savings_overrides', n) = <<>>
    /\ \A m \in 0..(MaxN + 1) :
           /\ m # n => OverridesOf(savings_overrides', m) = OverridesOf(savings_overrides, m)
           /\ Len(OverridesOf(savings_overrides', m)) <= 1

\* C23: set_savings_override_v2(n, amount) leaves exactly one override row for
\* n, holding amount; clearing the override (None, which is what Salvar
\* valores passes for an amount equal to the default n) leaves no override row
\* for n; in both cases the override rows of every other n are unchanged and
\* no n has two override rows.
C23_OverrideRows ==
    [][/\ last'.op = "set_savings_override_v2" => OverrideSet(last'.n, last'.amount)
       /\ last'.op = "Salvar valores" =>
              OverrideSet(last'.n, IF last'.amount = 10 * last'.n
                                   THEN [ok |-> FALSE, v |-> 0]
                                   ELSE [ok |-> TRUE, v |-> last'.amount])
      ]_vars

\* deposit 1, overridden before, was saved at its default 1.0 and has no
\* override row any more, while the override of another deposit stays
C23_Witness ==
    /\ last.op = "Salvar valores"
    /\ last.n = 1
    /\ last.amount = 10
    /\ last.had
    /\ OverridesOf(savings_overrides, 1) = <<>>
    /\ savings_overrides # <<>>

\* the typed rows of the Transaction sheet whose date lies within the bounds
TxInRange(tx, date_start, date_end) ==
    SelectSeq(TxTyped(ws_to_df(tx)), LAMBDA r : InRange(r.date, date_start, date_end))

\* C24: fetch_transactions(date_start, date_end) returns exactly the
\* transactions whose date d satisfies date_start <= d <= date_end (an absent
\* bound is unbounded), ordered by date descending and, among equal dates, by
\* id descending.
C24_FetchRangeOrder ==
    \A date_start \in DateBounds, date_end \in DateBounds :
        LET ret == FetchTx(transactions, date_start, date_end)
            want == TxInRange(transactions, date_start, date_end)
        IN /\ Len(ret) = Len(want)
           /\ \A r \in {want[i] : i \in 1..Len(want)} :
                  Cardinality({i \in 1..Len(ret) : ret[i] = r})
                      = Cardinality({i \in 1..Len(want) : want[i] = r})
           /\ \A i \in 1..Len(ret), j \in 1..Len(ret) :
                  i < j =>
                      \/ ret[i].date # ret[j].date /\ StrLeq(ret[j].date, ret[i].date)
                      \/ ret[i].date = ret[j].date /\ ret[i].id >= ret[j].id

\* the older transaction has the larger id: the full fetch shows the newer
\* date first, and a range from that date on returns it alone
C24_Witness ==
    /\ Len(transactions) = 2
    /\ LET ret == FetchTx(transactions, None, None)
       IN /\ Len(ret) = 2
          /\ ret[1].id < ret[2].id
          /\ ret[1].date = <<"0", "2">>
          /\ ret[2].date = <<"0", "1">>
    /\ Len(FetchTx(transactions, <<"0", "2">>, None)) = 1

\* the debt with the id is among the debts the page lists
DebtListed(rows, show_quitadas, debt_id) ==
    \E i \in 1..Len(FetchDebts(rows, show_quitadas)) :
        FetchDebts(rows, show_quitadas)[i].id = debt_id

\* C25: settling a debt d that appears in the listed debts appends exactly one
\* transaction of kind saida whose amount equals d's amount, then sets d's
\* settled flag to 1 and leaves every other debt row unchanged, after which
\* fetch_debts(show_quitadas = False) no longer returns d; settling an id that
\* is not listed adds no transaction and changes no debt.
C25_SettleDebt ==
    [][last'.op = "Quitar agora" =>
        LET id == last'.args.debt_id
            rows == remote[TAB_DEBTS].rows
            was == DebtsDf(rows)
            now == DebtsDf(remote'[TAB_DEBTS].rows)
            tx == ws_to_df(transactions')
        IN IF DebtListed(rows, last'.args.show_quitadas, id)
           THEN /\ Len(transactions') = Len(transactions) + 1
                /\ SubSeq(transactions', 1, Len(transactions)) = transactions
                /\ tx[Len(tx)].type = S_saida
                /\ \A i \in 1..Len(was) :
                       ToInt(was[i].id, 0) = id =>
                           ToFloat(tx[Len(tx)].amount, 0) = ToFloat(was[i].valor, 0)
                /\ Len(now) = Len(was)
                /\ \A i \in 1..Len(was) :
                       IF ToInt(was[i].id, 0) = id
                       THEN ToInt(now[i].quitada, 0) = 1
                       ELSE now[i] = was[i]
                /\ ~DebtListed(remote'[TAB_DEBTS].rows, FALSE, id)
           ELSE /\ transactions' = transactions
                /\ remote' = remote
      ]_vars

\* what a cell found on a sheet is worth: the cell "2" is the number 2, any
\* other cell offered is unparseable and is worth the default
CellInt(cell, dflt) == IF cell = <<"2">> THEN 2 ELSE dflt
CellTenths(cell, dflt) == IF cell = <<"2">> THEN 20 ELSE dflt

C27_EveryCallRetried ==
    /\ [](retry.pc # "raised")
    /\ <>(retry.pc = "completed")


\* C28: an error that signals a transient server fault is classified as
\* transient and retried with backoff in the same way as a rate-limit error:
\* when an attempt that is not the last permitted one fails with a server
\* fault, the call does not raise that error, it sleeps for the backoff of the
\* attempt and goes on.
C28_ServerFaultRetried ==
    \A k \in 1..Tries :
        (/\ retry.pc # "idle"
         /\ k < retry.tries
         /\ retry.i >= k
         /\ FailsAt(k, "server_fault"))
            => /\ ~(retry.pc = "raised" /\ retry.error.at = k)
               /\ Len(retry.sleeps) >= k
               /\ retry.sleeps[k] = Backoff(k - 1)

\* C29: the executor sleeps only when a further attempt will follow: a call
\* that has ended has slept fewer times than it made attempts, and a call whose
\* every permitted attempt failed with a rate-limit error has performed exactly
\* tries - 1 delays when it raises.
C29_NoSleepAfterLast ==
    (retry.pc # "idle" /\ RetryDone) =>
        /\ Len(retry.sleeps) <= retry.i - 1
        /\ (\A k \in 1..retry.tries : FailsAt(k, "rate_limit")) =>
               Len(retry.sleeps) = retry.tries - 1


\* C30: two reads of the Transaction table with no write on it in between
\* (the code reads no clock, so they are within any time-to-live) cause at most
\* one remote fetch: the second read makes no remote call.
C30_SecondReadCached ==
    retry.reads >= 2 =>
        /\ retry.fetches <= 1
        /\ last.op = "fetch_transactions" => last.fetched = 0


\* the ids 1..9 as they are written in a cell
IdCellOf == <<<<"1">>, <<"2">>, <<"3">>, <<"4">>, <<"5">>, <<"6">>, <<"7">>, <<"8">>, <<"9">>>>

\* the id a cell holds, 0 for a cell that holds none
IdValOf(cell) ==
    IF \E d \in 1..9 : IdCellOf[d] = cell THEN CHOOSE d \in 1..9 : IdCellOf[d] = cell
    ELSE 0

\* the largest id among the id cells, 0 when none of them holds an id
MaxIdOf(cells) ==
    CHOOSE m \in 0..9 :
        /\ m = 0 \/ \E i \in 1..Len(cells) : IdValOf(cells[i]) = m
        /\ \A i \in 1..Len(cells) : IdValOf(cells[i]) <= m

\* the sheet rows after the add are the rows before it followed by one row with
\* the next id
RowAdded(before, after) ==
    /\ Len(after) = Len(before) + 1
    /\ SubSeq(after, 1, Len(before)) = before
    /\ after[Len(after)][1] =
           IdCellOf[MaxIdOf([i \in 1..Len(before) - 1 |-> Cell(before[i + 1], 1)]) + 1]

\* C31: each add operation (add_transaction, add_cashflow_adjustment, add_debt,
\* add_note) gives the new row the id max(existing ids) + 1, or 1 when the
\* table has no row with a parseable id, and appends it without changing any
\* existing row.
C31_AddAllocatesNextId ==
    [][/\ last'.op = "add_transaction" =>
            /\ Len(transactions') = Len(transactions) + 1
            /\ SubSeq(transactions', 1, Len(transactions)) = transactions
            /\ transactions'[Len(transactions')].id =
                   IdCellOf[MaxIdOf([i \in 1..Len(transactions) |-> transactions[i].id]) + 1]
       /\ last'.op = "add_cashflow_adjustment" =>
            RowAdded(remote[TAB_ADJUSTMENTS].rows, remote'[TAB_ADJUSTMENTS].rows)
       /\ last'.op = "add_debt" =>
            RowAdded(remote[TAB_DEBTS].rows, remote'[TAB_DEBTS].rows)
       /\ last'.op = "add_note" =>
            RowAdded(remote[TAB_NOTES].rows, remote'[TAB_NOTES].rows)]_vars

\* a note was added with id 6 to a Notes table found with the ids 5 and 2
C31_Witness ==
    /\ last.op = "add_note"
    /\ Len(remote[TAB_NOTES].rows) = 4
    /\ remote[TAB_NOTES].rows[2][1] = <<"5">>
    /\ remote[TAB_NOTES].rows[3][1] = <<"2">>
    /\ remote[TAB_NOTES].rows[4][1] = <<"6">>


\* every entry of the sequence is greater than every entry before it
Increasing(s) == \A i \in 1..Len(s), j \in 1..Len(s) : i < j => s[i] < s[j]

\* C32: in a single session, across any sequence of add and delete operations
\* on one table, each id allocated by add is greater than every id allocated by
\* an earlier add on that table, so an id is never handed out twice.
C32_KeysIncreasing ==
    /\ Increasing(retry.tx)
    /\ Increasing(retry.debts)


\* the rows of the Transaction table that carry the id written in the cell
RowsWithId(cell) == {k \in 1..Len(transactions) : transactions[k].id = cell}

\* C33: with two sessions interleaving add_transaction on the same table, when
\* both have read the same table state and each has then appended its row, two
\* rows of the table carry the same id, the one that follows the largest id of
\* the state they read: a state with a colliding id is reachable.
C33_TwoSessionsCollide ==
    (/\ \A s \in Sessions : retry[s].pc = "idle" /\ retry[s].done >= 1
     /\ retry[1].saw = retry[2].saw)
        => Cardinality(RowsWithId(
               IdCellOf[MaxIdOf([i \in 1..Len(retry[1].saw) |-> retry[1].saw[i].id]) + 1]))
           >= 2

\* both sessions read the empty table and the table now holds two rows with id 1
C33_Witness ==
    /\ \A s \in Sessions : retry[s].pc = "idle" /\ retry[s].done = 1 /\ retry[s].saw = <<>>
    /\ Len(transactions) = 2
    /\ transactions[1].id = <<"1">>
    /\ transactions[2].id = <<"1">>
    /\ transactions[1].description # transactions[2].description


\* C34: when two sessions run rewrite-based operations on the same table
\* concurrently, once both have finished the table holds exactly the row-set
\* written by one of them and the other writer's change is discarded as a
\* whole: the header once, then the rows that writer wrote, in order; never a
\* mixture of the two writers' rows, a duplicated header or duplicated rows.
C34_LastWriterWins ==
    (\A s \in Sessions : retry[s].pc = "done" /\ retry[s].op # "none") =>
        \E s \in Sessions :
            /\ retry[s].sheet = TAB_TRANSACTIONS
            /\ remote[TAB_TRANSACTIONS].rows = <<H_TRANSACTIONS>> \o retry[s].staged


\* s is the sequence p followed by nothing, or by more
IsPrefix(p, s) == Len(p) <= Len(s) /\ SubSeq(s, 1, Len(p)) = p

\* the session is between the clear of a rewrite of the sheet and its return
Rewriting(s, sheet) ==
    /\ retry[s].sheet = sheet
    /\ retry[s].pc \in {"header", "rows"} \/ (retry[s].pc = "done" /\ retry[s].op # "none")

\* the Transaction rows the call leaves when it runs alone on the found sheet
\* of well-formed rows: the found rows but the deleted one, or the found rows
\* with the updated one carrying the incoming fields
RowsMeant(found, c) ==
    LET rows == SubSeq(found, 2, Len(found))
    IN IF c.op = "delete_transaction"
       THEN SelectSeq(rows, LAMBDA r : r[1] # IdCellOf[c.arg])
       ELSE [i \in 1..Len(rows) |->
                IF rows[i][1] = IdCellOf[c.arg]
                THEN <<rows[i][1], <<"0", "2">>, <<"z">>, <<"e", "n", "t", "r", "a", "d", "a">>,
                       <<"3", ".", "0">>, <<"O", "u", "t", "r", "o", "s">>, <<"1">>,
                       rows[i][8]>>
                ELSE rows[i]]

\* C35, as stated: an interruption at any point of a rewrite leaves the remote
\* table holding the header row followed by a prefix, in order, of the row-set
\* being written, and a rewrite that completes leaves the header followed by
\* exactly that row-set.
C35_AsStated ==
    Rewriting(1, TAB_TRANSACTIONS) =>
        LET rows == remote[TAB_TRANSACTIONS].rows
            meant == RowsMeant(last.found[TAB_TRANSACTIONS].rows, retry[1])
        IN /\ rows # <<>>
           /\ rows[1] = H_TRANSACTIONS
           /\ IsPrefix(SubSeq(rows, 2, Len(rows)), meant)
           /\ retry[1].pc = "done" => SubSeq(rows, 2, Len(rows)) = meant

\* C35: a rewrite clears the table, appends the header, then appends the rows
\* in order: an interruption of a rewrite leaves the remote table empty (when it
\* falls between the clear and the append of the header) or holding the header
\* row followed by a prefix, in order, of the row-set being written, and a
\* rewrite that completes leaves the header followed by exactly that row-set.
C35_RewritePrefix ==
    Rewriting(1, TAB_TRANSACTIONS) =>
        LET rows == remote[TAB_TRANSACTIONS].rows
            meant == RowsMeant(last.found[TAB_TRANSACTIONS].rows, retry[1])
        IN /\ rows = <<>> => retry[1].pc = "header"
           /\ rows # <<>> =>
                /\ rows[1] = H_TRANSACTIONS
                /\ IsPrefix(SubSeq(rows, 2, Len(rows)), meant)
                /\ Len(rows) = 1 + retry[1].k
           /\ retry[1].pc = "done" => SubSeq(rows, 2, Len(rows)) = meant

\* update_transactions_bulk stopped after the header and the first of the rows
\* it writes: the sheet holds the header and row 1
C35_Witness ==
    /\ retry[1].op = "update_transactions_bulk"
    /\ retry[1].sheet = TAB_TRANSACTIONS
    /\ retry[1].pc = "rows"
    /\ retry[1].k = 1
    /\ Len(last.found[TAB_TRANSACTIONS].rows) >= 3
    /\ remote[TAB_TRANSACTIONS].rows = <<H_TRANSACTIONS, RawTx(1)>>


\* the rows of the SavingsTxLink sheet that refer to the transaction
LinkRowsTo(id) ==
    {k \in 2..Len(remote[TAB_SAVINGS_TX_LINK].rows) :
        Cell(remote[TAB_SAVINGS_TX_LINK].rows[k], 2) = IdCellOf[id]}

\* C36: delete_transaction finishes removing the matching SavingsTxLink rows
\* before it makes any change to the Transaction table: while a link row for
\* the transaction is still there, or the rewrite of the link sheet is under
\* way, the Transaction sheet is as it was found; stopped between the two steps
\* the transaction is present without a link.
C36_LinksRemovedFirst ==
    retry[1].op = "delete_transaction" =>
        LET found == last.found[TAB_TRANSACTIONS].rows
            changed == remote[TAB_TRANSACTIONS].rows # found
            in_links == retry[1].pc = "link_read"
                            \/ (retry[1].sheet = TAB_SAVINGS_TX_LINK
                                    /\ retry[1].pc \in {"clear", "header", "rows"})
        IN /\ (in_links \/ LinkRowsTo(retry[1].arg) # {}) => ~changed
           /\ retry[1].pc = "tx_read" =>
                /\ ~changed
                /\ LinkRowsTo(retry[1].arg) = {}
                /\ remote[TAB_SAVINGS_TX_LINK].rows[1] = H_SAVINGS_TX_LINK

\* delete_transaction(1) between its two steps: the link of deposit 1 is gone
\* and transaction 1 is still in the sheet
C36_Witness ==
    /\ retry[1].op = "delete_transaction"
    /\ retry[1].arg = 1
    /\ retry[1].pc = "tx_read"
    /\ Len(last.found[TAB_SAVINGS_TX_LINK].rows) = 3
    /\ remote[TAB_SAVINGS_TX_LINK].rows = <<H_SAVINGS_TX_LINK, RawLink(2, 2)>>
    /\ remote[TAB_TRANSACTIONS].rows = <<H_TRANSACTIONS, RawTx(1), RawTx(2)>>


\* the rows of a table after a delete of the id: the rows before it that do not
\* carry the id, each as it was, in their order
DeleteKept(before, after, id) ==
    after = SelectSeq(before, LAMBDA r : r[1] # IdCellOf[id])

\* the rows of a table after an update of the row with the id: every other row
\* as it was, in its place; all of them when no row carries the id
UpdateKept(before, after, id) ==
    /\ Len(after) = Len(before)
    /\ \A i \in 1..Len(before) : before[i][1] # IdCellOf[id] => after[i] = before[i]

\* C37: every rewrite-based operation (delete_transaction,
\* delete_cashflow_adjustment, delete_debt, delete_note, mark_debt_paid,
\* update_note, update_transactions_bulk) leaves each row it does not target
\* unchanged in every column, blank cells included, and keeps the relative
\* order of the remaining rows; a delete or update for an id that is not in the
\* table leaves the table content unchanged.
C37_RewriteFrame ==
    [][/\ last'.op = "delete_transaction" =>
            transactions' = SelectSeq(transactions, LAMBDA r : r.id # IdCellOf[last'.id])
       /\ last'.op = "update_transactions_bulk" =>
            /\ Len(transactions') = Len(transactions)
            /\ \A i \in 1..Len(transactions) :
                   transactions[i].id # IdCellOf[last'.id] => transactions'[i] = transactions[i]
       /\ last'.op = "delete_cashflow_adjustment" =>
            DeleteKept(remote[TAB_ADJUSTMENTS].rows, remote'[TAB_ADJUSTMENTS].rows, last'.id)
       /\ last'.op = "delete_debt" =>
            DeleteKept(remote[TAB_DEBTS].rows, remote'[TAB_DEBTS].rows, last'.id)
       /\ last'.op = "delete_note" =>
            DeleteKept(remote[TAB_NOTES].rows, remote'[TAB_NOTES].rows, last'.id)
       /\ last'.op = "mark_debt_paid" =>
            UpdateKept(remote[TAB_DEBTS].rows, remote'[TAB_DEBTS].rows, last'.id)
       /\ last'.op = "update_note" =>
            UpdateKept(remote[TAB_NOTES].rows, remote'[TAB_NOTES].rows, last'.id)]_vars


\* the transactions of the Transaction table made for deposit n
DesafioRowsOf(n) ==
    {k \in 1..Len(transactions) :
        /\ transactions[k].category = <<"D", "e", "s", "a", "f", "i", "o">>
        /\ transactions[k].amount = <<IdCellOf[n][1], ".", "0">>}

\* C38: create_desafio_transaction creates at most one transaction per deposit
\* n even when it is interrupted: also after a call for n that stopped between
\* the append of the transaction row and the write of the link row, and calls
\* for the same n after it, the Transaction table holds at most one transaction
\* for deposit n.
C38_OneTransactionPerN ==
    \A n \in 1..MaxLinkN : Cardinality(DesafioRowsOf(n)) <= 1


\* C39: after any sequence of completed operations on a store with a goal of
\* deposit_count N (the SavingsDeposit table holds the rows 1..N), every
\* SavingsOverride row and every SavingsTxLink row has its n in [1, N]:
\* set_savings_override_v2 and create_desafio_transaction never leave a row for
\* an n that has no deposit row.
C39_RowsWithinGoal ==
    savings_deposits # <<>> =>
        /\ \A k \in 1..Len(savings_overrides) :
               IdValOf(savings_overrides[k].n) \in 1..Len(savings_deposits)
        /\ \A k \in 1..Len(savings_tx_link) :
               IdValOf(savings_tx_link[k].n) \in 1..Len(savings_deposits)


\* C40: after reset_savings_marks_v2 returns, from any prior state, every
\* SavingsDeposit row has done = 0 and the SavingsTxLink table has no rows,
\* while the set of deposit indexes, the SavingsGoal row and the
\* SavingsOverride rows are unchanged.
C40_ResetMarks ==
    [][last'.op = "reset_savings_marks_v2" =>
        /\ \A k \in 1..Len(savings_deposits') : savings_deposits'[k].done = <<"0">>
        /\ savings_tx_link' = <<>>
        /\ {savings_deposits'[k].n : k \in 1..Len(savings_deposits')}
               = {savings_deposits[k].n : k \in 1..Len(savings_deposits)}
        /\ savings_goal' = savings_goal
        /\ savings_overrides' = savings_overrides]_vars

====
